---- MODULE Spec2Model ----
(***************************************************************************)
(* Verification model of ctar (peak-gene correlation testing).             *)
(*                                                                         *)
(* Part 1: the control peak sampler, create_ctrl_peaks, in its two         *)
(*         versions (src/ctar/method.py and src/ctar/method-Isuru.py).     *)
(* Part 2: the Monte Carlo significance tester, mc_pval (method.py).       *)
(*                                                                         *)
(* Arrays indexed by link (adata.var rows, matrix columns) are functions   *)
(* over 0..M-1, as in the source.  A row of drawn control indices is a     *)
(* sequence 1..b in drawing order.  Random draws are nondeterministic      *)
(* choices.  Real arithmetic is exact (rationals by cross-multiplication); *)
(* floating-point rounding is not modelled.                                *)
(***************************************************************************)
EXTENDS Integers, Sequences, FiniteSets, TLC

VARIABLES
    impl,          \* which file's create_ctrl_peaks runs: "method" | "isuru"
    var_peak,      \* adata.var['peak'] (method.py: var['gene_ids']), per link
    var_peak_col,  \* adata.var[peak_col], per link
    mfa,           \* atac_X.mean(axis=0), per link
    gc,            \* gc_content(adata), per link
    num_bins,      \* argument num_bins
    b,             \* argument b
    use_gc,        \* argument gc (method-Isuru.py only)
    update,        \* argument update; read, and drawn, at the last statement
    pc,            \* "sampling" | "returned" | "error"
    bins,          \* local bins = get_bins(...), one record per row
    row,           \* next row of bins to draw for
    ctrl_peaks,    \* local ctrl_peaks while it is filled: one draw per row of bins
    result,        \* the returned matrix, << >> before the return
    varm,          \* adata.varm['control_peaks'], << >> while absent
    del_cctrl_full,\* mc_pval argument: null matrix, N rows of B values
    del_c,         \* mc_pval argument: observed vector, N values
    pvalue,        \* mc_pval result, << >> before the call
    mcpc,          \* "idle" | "called" | "done"
    mat_X,         \* pearson_corr_sparse argument mat_X
    mat_Y,         \* pearson_corr_sparse argument mat_Y
    var_filter,    \* pearson_corr_sparse argument var_filter
    mat_corr,      \* what pearson_corr_sparse returned or raised, << >> before
    corrpc,        \* "idle" | "called" | "done"
    lst,           \* chunk_lists argument lst
    num_groups,    \* chunk_lists argument num_groups
    group_size,    \* chunk_lists local group_size
    g,             \* chunk_lists local g
    list_chunks,   \* chunk_lists local list_chunks, the dictionary returned
    chunkpc,       \* "idle" | "loop" | "returned"
    fits,          \* per feature: what the Poisson fit of its columns does
    i_pair,        \* get_poiss_coeff loop index i
    coeffs,        \* get_poiss_coeff local coeffs
    failed,        \* get_poiss_coeff local failed
    poiss_adata,   \* what get_poiss_coeff returned, << >> before
    poisspc,       \* "idle" | "loop" | "returned" | "error"
    ds,            \* the datasets (AnnData objects) of a pipeline run, by name
    cc,            \* the control_corr call waiting for create_ctrl_peaks, or << >>
    call,          \* the last stage call: its name, arguments and outcome
    nbuilds,       \* number of build_ct_adata / build_other_adata calls so far
    seedings,      \* times the caller seeded the random source and called the sampler
    tape,          \* per row, what the generator was asked and gave the first time
    first_result   \* the matrix the first seeded call returned, << >> before

ctrlVars == <<impl, var_peak, var_peak_col, mfa, gc, num_bins, b, use_gc,
              update, pc, bins, row, ctrl_peaks, result, varm>>
mcVars == <<del_cctrl_full, del_c, pvalue, mcpc>>
corrVars == <<mat_X, mat_Y, var_filter, mat_corr, corrpc>>
chunkVars == <<lst, num_groups, group_size, g, list_chunks, chunkpc>>
poissVars == <<fits, i_pair, coeffs, failed, poiss_adata, poisspc>>
pipeVars == <<ds, cc, call, nbuilds>>
seedVars == <<seedings, tape, first_result>>
vars == <<ctrlVars, mcVars, corrVars, chunkVars, poissVars, pipeVars, seedVars>>

\* what a call of one component leaves alone: the state of the others
nonCtrlVars == <<mcVars, corrVars, chunkVars, poissVars, pipeVars, seedVars>>
nonMcVars == <<ctrlVars, corrVars, chunkVars, poissVars, pipeVars, seedVars>>
nonCorrVars == <<ctrlVars, mcVars, chunkVars, poissVars, pipeVars, seedVars>>
nonChunkVars == <<ctrlVars, mcVars, corrVars, poissVars, pipeVars, seedVars>>
nonPoissVars == <<ctrlVars, mcVars, corrVars, chunkVars, pipeVars, seedVars>>
libVars == <<mcVars, corrVars, chunkVars, poissVars, seedVars>>

\* the state of a component that is not in use
ctrlIdle ==
    /\ impl = "none"
    /\ var_peak = << >> /\ var_peak_col = << >>
    /\ mfa = << >> /\ gc = << >>
    /\ num_bins = 0 /\ b = 0
    /\ use_gc = FALSE /\ update = FALSE
    /\ pc = "idle"
    /\ bins = << >> /\ row = 0
    /\ ctrl_peaks = << >> /\ result = << >> /\ varm = << >>

mcIdle ==
    /\ del_cctrl_full = << >>
    /\ del_c = << >>
    /\ pvalue = << >>
    /\ mcpc = "idle"

corrIdle ==
    /\ mat_X = << >>
    /\ mat_Y = << >>
    /\ var_filter = FALSE
    /\ mat_corr = << >>
    /\ corrpc = "idle"

chunkIdle ==
    /\ lst = << >> /\ num_groups = 0
    /\ group_size = 0 /\ g = 0
    /\ list_chunks = << >>
    /\ chunkpc = "idle"

poissIdle ==
    /\ fits = << >>
    /\ i_pair = 0
    /\ coeffs = << >> /\ failed = << >>
    /\ poiss_adata = << >>
    /\ poisspc = "idle"

pipeIdle ==
    /\ ds = << >>
    /\ cc = << >>
    /\ call = << >>
    /\ nbuilds = 0

seedIdle ==
    /\ seedings = 0
    /\ tape = << >>
    /\ first_result = << >>

nonCtrlIdle == mcIdle /\ corrIdle /\ chunkIdle /\ poissIdle /\ pipeIdle /\ seedIdle
nonMcIdle == ctrlIdle /\ corrIdle /\ chunkIdle /\ poissIdle /\ pipeIdle /\ seedIdle
nonCorrIdle == ctrlIdle /\ mcIdle /\ chunkIdle /\ poissIdle /\ pipeIdle /\ seedIdle
nonChunkIdle == ctrlIdle /\ mcIdle /\ corrIdle /\ poissIdle /\ pipeIdle /\ seedIdle
nonPoissIdle == ctrlIdle /\ mcIdle /\ corrIdle /\ chunkIdle /\ pipeIdle /\ seedIdle
libIdle == mcIdle /\ corrIdle /\ chunkIdle /\ poissIdle /\ seedIdle

----------------------------------------------------------------------------
(* Bounds of the model. *)

\* links of a dataset given to method-Isuru.py's sampler
MaxLinks == 4
\* largest requested number of control peaks per link
MaxB == 2
\* largest requested number of accessibility bins
MaxBins == 2
\* covariate values (mean accessibility, GC content) a peak can have
CovariateLevels == {0, 1}
\* largest number N of features given to mc_pval
MaxFeatures == 2
\* largest number B of null draws per feature given to mc_pval
MaxDraws == 3
\* values of the statistics given to mc_pval
StatValues == {-1, 0, 1}
\* largest number of rows (cells) of a matrix given to pearson_corr_sparse
MaxCells == 3
\* largest number of columns of a matrix given to pearson_corr_sparse
MaxCols == 2
\* entries of the accessibility and expression matrices
CountValues == {0, 1}
\* longest list given to chunk_lists
MaxLen == 4
\* largest num_groups given to chunk_lists
MaxGroups == 3
\* elements of a list given to chunk_lists
ListElems == {0, 1}
\* largest number of peak-gene pairs given to get_poiss_coeff
MaxPairs == 3
\* cells in each cell group of a links dataset (filter_vars asks for more
\* than 10 cells with a count)
GroupCells == 11
\* build_ct_adata / build_other_adata calls in one run
MaxBuilds == 3
\* links of a dataset given to method-Isuru.py's sampler in a seeded run
SeedLinks == 3
\* links of a dataset given to control_corr_fast
FastMaxLinks == 17
\* links of a dataset whose cell types are compared
DeltaMaxLinks == 3
\* features of a dataset given to control_corr_permutation_chunked
PermMaxLinks == 8
\* links of a dataset given to get_bins on its own
BinsMaxLinks == 7
\* largest num_bins given to get_bins on its own
BinsMaxNumBins == 11
\* nonzero coefficients a Poisson fit can return
CoeffValues == {-1, 1}

(* Program constants. *)

\* create_ctrl_peaks of method.py calls get_bins(adata, num_bins=5)
MethodNumBins == 5
\* get_bins of method-Isuru.py cuts GC content into 2 groups
IsuruGcBins == 2
\* combined_mfa_gc = mfa_bin * 10 + gc_bin
BinStride == 10
\* the bin pd.qcut gives when the edges collapse: not-a-number
NaNBin == -1

\* pearson_corr_sparse flags a column whose variance is <= 1e-6 = 1/1000000
VarThresholdInv == 1000000
\* pearson_corr_sparse floors a variance at 1e-8 = 1/100000000 ...
ClipInv == 100000000
\* ... so that a floored standard deviation is 1e-4 = 1/10000
ClipSdInv == 10000

\* control_corr_fast calls chunk_lists(..., 15)
FastChunks == 15

\* method.py needs more links than accessibility bins before two links can
\* share a bin; its datasets have up to MethodNumBins + 1 links.
MethodMaxLinks == MethodNumBins + 1

----------------------------------------------------------------------------
(* Helpers. *)

Max(a, c) == IF a >= c THEN a ELSE c

CeilDiv(a, c) == (a + c - 1) \div c

Range(f) == {f[x] : x \in DOMAIN f}

\* the arrays of length n, indexed 0..n-1, over S
Arrays(n, S) == [0..(n - 1) -> S]

\* arr with value v stored at position n
Store(arr, n, v) == [k \in (DOMAIN arr) \cup {n} |-> IF k = n THEN v ELSE arr[k]]

\* identifier columns up to renaming: the first link has identifier 1 and a
\* link either repeats an earlier identifier or takes the next unused one
IdColumns(n) ==
    {f \in Arrays(n, 1..n) :
        \A i \in 0..(n - 1) :
            f[i] <= 1 + Cardinality({f[j] : j \in 0..(i - 1)})}

----------------------------------------------------------------------------
(* Binning: get_bins. *)

\* Series.rank(method='first'): ties ranked in order of appearance
rank_first(x) ==
    [i \in DOMAIN x |->
        1 + Cardinality({j \in DOMAIN x :
                            x[j] < x[i] \/ (x[j] = x[i] /\ j < i)})]

\* pd.qcut(x, q, labels=False, duplicates="drop") for x the ranks 1..n of n
\* rows.  The edges are the quantiles 1 + (n-1)k/q, k = 0..q; a value falls
\* in the first interval whose right edge is at or above it, the lowest
\* value included in interval 0.  With one row all edges coincide: they are
\* dropped to one edge and the row gets no bin (NaN), except for q = 1,
\* whose two equal edges are kept.
qcut(x, q) ==
    LET n == Cardinality(DOMAIN x)
    IN  [i \in DOMAIN x |->
            IF n = 1
            THEN IF q = 1 THEN 0 ELSE NaNBin
            ELSE Max(CeilDiv((x[i] - 1) * q, n - 1), 1) - 1]

\* bins['mfa_bin'] * 10 + bins['gc_bin'], NaN when either is NaN
combined_bin(mb, gb) ==
    IF mb = NaNBin \/ gb = NaNBin THEN NaNBin ELSE mb * BinStride + gb

\* method.py get_bins(adata, num_bins): one row per link; both covariates
\* are cut into num_bins groups
get_bins(nb) ==
    LET mb == qcut(rank_first(mfa), nb)
        gb == qcut(rank_first(gc), nb)
    IN  [i \in DOMAIN mfa |->
            [peak |-> var_peak_col[i], ind |-> i,
             mfa_bin |-> mb[i], gc_bin |-> gb[i],
             combined_mfa_gc |-> combined_bin(mb[i], gb[i])]]

\* ~adata.var.duplicated(subset='peak'): the first link of each 'peak' value
unique ==
    {i \in DOMAIN var_peak :
        \A j \in DOMAIN var_peak : j < i => var_peak[j] # var_peak[i]}

\* the k-th (from 0) link kept by the mask `unique`
unique_at(k) == CHOOSE i \in unique : Cardinality({j \in unique : j < i}) = k

\* method-Isuru.py get_bins(adata, num_bins, peak_col, gc): one row per link
\* kept by `unique`; 'peak' holds var[peak_col], 'ind' the link's position;
\* GC content is cut into 2 groups; without gc a row has no gc_bin and no
\* combined_mfa_gc
isuru_get_bins(nb, with_gc) ==
    LET n  == Cardinality(unique)
        at == [k \in 0..(n - 1) |-> unique_at(k)]
        mb == qcut(rank_first([k \in 0..(n - 1) |-> mfa[at[k]]]), nb)
        gb == qcut(rank_first([k \in 0..(n - 1) |-> gc[at[k]]]), IsuruGcBins)
    IN  [k \in 0..(n - 1) |->
            IF with_gc
            THEN [peak |-> var_peak_col[at[k]], ind |-> at[k],
                  mfa_bin |-> mb[k], gc_bin |-> gb[k],
                  combined_mfa_gc |-> combined_bin(mb[k], gb[k])]
            ELSE [peak |-> var_peak_col[at[k]], ind |-> at[k],
                  mfa_bin |-> mb[k]]]

----------------------------------------------------------------------------
(* Sampling: rand_peaks and create_ctrl_peaks. *)

\* the bin id create_ctrl_peaks groups and looks rows up by:
\* combined_mfa_gc, or mfa_bin when gc is False
bin_of(r) == IF use_gc THEN bins[r].combined_mfa_gc ELSE bins[r].mfa_bin

\* bins.groupby(bin id).ind at one key: the 'ind' of the rows of that bin
bins_grouped(key) == {bins[r].ind : r \in {k \in DOMAIN bins : bin_of(k) = key}}

\* draws of k elements of S with replacement: what the samplers would
\* return if an element could be drawn twice
SamplesWithReplacement(S, k) == [1..k -> S]

\* the draws of k elements of S without replacement, in drawing order
\* (random.sample(S, k); np.random.choice(S, size=(k,), replace=False))
Samples(S, k) ==
    {s \in [1..k -> S] : \A x, y \in 1..k : x # y => s[x] # s[y]}

\* method.py rand_peaks: row_bin is the one-entry Series df.loc[bin id],
\* whose entry is the list of indices of the bin.  row_bin != row.name
\* compares that list with the row's label: they differ, the mask is True
\* and row_bin_copy['ind'] is the whole list, the row's own index included.
row_bin_copy(r) == bins_grouped(bin_of(r))

\* method.py rand_peaks: the values random.sample(row_bin_copy['ind'], k=b)
\* can return for row r
rand_peaks(r) == Samples(row_bin_copy(r), b)

\* method-Isuru.py: row_bin[row_bin != peak.ind], an array of indices
isuru_row_bin_copy(r) == bins_grouped(bin_of(r)) \ {bins[r].ind}

\* method-Isuru.py: the values np.random.choice(row_bin_copy, size=(b,),
\* replace=False) can return for row r
isuru_choice(r) == Samples(isuru_row_bin_copy(r), b)

\* pd.factorize(col)[0]: a link's code is the number of distinct values
\* that first appear before its own value does
factorize(col) ==
    [i \in DOMAIN col |->
        LET first == CHOOSE f \in DOMAIN col :
                        /\ col[f] = col[i]
                        /\ \A j \in DOMAIN col : col[j] = col[i] => f <= j
        IN  Cardinality({col[j] : j \in {k \in DOMAIN col : k < first}})]

\* what the column named by peak_col can hold beside the column 'peak': the
\* peak identifiers again, one identifier per link (links of different
\* genes), or one identifier for all links (links of one gene)
PeakColColumns(peak) ==
    {peak, [i \in DOMAIN peak |-> i + 1], [i \in DOMAIN peak |-> 1]}

\* a dataset for method.py: links of distinct peaks
MethodInit ==
    /\ impl = "method"
    /\ \E n \in 1..MethodMaxLinks :
          /\ var_peak = [i \in 0..(n - 1) |-> i + 1]
          /\ var_peak_col = var_peak
          /\ mfa \in Arrays(n, CovariateLevels)
          /\ gc \in Arrays(n, CovariateLevels)
    /\ use_gc = TRUE

\* a dataset for method-Isuru.py: links that may share peaks; the links of
\* one peak have the same accessibility column and the same sequence
IsuruInit ==
    /\ impl = "isuru"
    /\ \E n \in 1..MaxLinks :
          /\ var_peak \in IdColumns(n)
          /\ var_peak_col \in PeakColColumns(var_peak)
          /\ \E pm \in [Range(var_peak) -> CovariateLevels] :
                mfa = [i \in 0..(n - 1) |-> pm[var_peak[i]]]
          /\ use_gc \in BOOLEAN
          /\ IF use_gc
             THEN \E pg \in [Range(var_peak) -> CovariateLevels] :
                     gc = [i \in 0..(n - 1) |-> pg[var_peak[i]]]
             ELSE gc = [i \in 0..(n - 1) |-> 0]

CtrlInit ==
    /\ MethodInit \/ IsuruInit
    /\ num_bins \in 1..MaxBins
    /\ b \in 1..MaxB
    /\ update = FALSE
    /\ pc = "start"
    /\ bins = << >>
    /\ row = 0
    /\ ctrl_peaks = << >>
    /\ result = << >>
    /\ varm = << >>

\* the dataset and the arguments read before the last statement
ctrlInputs == <<impl, var_peak, var_peak_col, mfa, gc, num_bins, b, use_gc>>

\* method.py create_ctrl_peaks, first statement: bins = get_bins(adata, num_bins=5)
MethodCall ==
    /\ impl = "method" /\ pc = "start"
    /\ bins' = get_bins(MethodNumBins)
    /\ pc' = "sampling"
    /\ UNCHANGED <<ctrlInputs, update, row, ctrl_peaks, result, varm>>
    /\ UNCHANGED nonCtrlVars

\* method.py: bins.apply(rand_peaks, axis=1, ...) reaches row `row`
MethodRandPeaks ==
    /\ impl = "method" /\ pc = "sampling" /\ row \in DOMAIN bins
    /\ bin_of(row) # NaNBin
    /\ \E s \in rand_peaks(row) : ctrl_peaks' = Store(ctrl_peaks, row, s)
    /\ row' = row + 1
    /\ UNCHANGED <<ctrlInputs, update, pc, bins, result, varm>>
    /\ UNCHANGED nonCtrlVars

\* method.py: df.loc[NaN] raises KeyError; random.sample raises ValueError
\* when the population is smaller than b
MethodRandPeaksError ==
    /\ impl = "method" /\ pc = "sampling" /\ row \in DOMAIN bins
    /\ bin_of(row) = NaNBin \/ rand_peaks(row) = {}
    /\ pc' = "error"
    /\ UNCHANGED <<ctrlInputs, update, bins, row, ctrl_peaks, result, varm>>
    /\ UNCHANGED nonCtrlVars

\* the update argument of create_ctrl_peaks: either value in a call of its
\* own, the default True in the call control_corr makes (line 555)
UpdateArgs == IF cc = << >> THEN BOOLEAN ELSE {TRUE}

\* method.py: np.vstack, if update: adata.varm['control_peaks'] = ctrl_peaks
MethodReturn ==
    /\ impl = "method" /\ pc = "sampling" /\ row \notin DOMAIN bins
    /\ result' = ctrl_peaks
    /\ update' \in UpdateArgs
    /\ varm' = IF update' THEN ctrl_peaks ELSE varm
    /\ pc' = "returned"
    /\ UNCHANGED <<ctrlInputs, bins, row, ctrl_peaks>>
    /\ UNCHANGED nonCtrlVars

\* method-Isuru.py create_ctrl_peaks, first statement: bins = get_bins(...)
IsuruCall ==
    /\ impl = "isuru" /\ pc = "start"
    /\ bins' = isuru_get_bins(num_bins, use_gc)
    /\ pc' = "sampling"
    /\ UNCHANGED <<ctrlInputs, update, row, ctrl_peaks, result, varm>>
    /\ UNCHANGED nonCtrlVars

\* method-Isuru.py: one iteration of the loop over bins.itertuples()
IsuruDraw ==
    /\ impl = "isuru" /\ pc = "sampling" /\ row \in DOMAIN bins
    /\ bin_of(row) # NaNBin
    /\ \E s \in isuru_choice(row) : ctrl_peaks' = Store(ctrl_peaks, row, s)
    /\ row' = row + 1
    /\ UNCHANGED <<ctrlInputs, update, pc, bins, result, varm>>
    /\ UNCHANGED nonCtrlVars

\* method-Isuru.py: bins_grouped.loc[NaN] raises KeyError; np.random.choice
\* raises ValueError when fewer than b candidates are left
IsuruDrawError ==
    /\ impl = "isuru" /\ pc = "sampling" /\ row \in DOMAIN bins
    /\ bin_of(row) = NaNBin \/ isuru_choice(row) = {}
    /\ pc' = "error"
    /\ UNCHANGED <<ctrlInputs, update, bins, row, ctrl_peaks, result, varm>>
    /\ UNCHANGED nonCtrlVars

\* method-Isuru.py: ind, _ = pd.factorize(adata.var[peak_col]);
\* ctrl_peaks = ctrl_peaks[ind, :]; update; return
IsuruReturn ==
    /\ impl = "isuru" /\ pc = "sampling" /\ row \notin DOMAIN bins
    /\ LET ind == factorize(var_peak_col)
       IN  /\ Range(ind) \subseteq DOMAIN ctrl_peaks
           /\ result' = [i \in DOMAIN ind |-> ctrl_peaks[ind[i]]]
    /\ update' \in BOOLEAN
    /\ varm' = IF update' THEN result' ELSE varm
    /\ pc' = "returned"
    /\ UNCHANGED <<ctrlInputs, bins, row, ctrl_peaks>>
    /\ UNCHANGED nonCtrlVars

\* method-Isuru.py: ctrl_peaks[ind, :] raises IndexError when a code is not
\* a row of ctrl_peaks
IsuruIndexError ==
    /\ impl = "isuru" /\ pc = "sampling" /\ row \notin DOMAIN bins
    /\ ~(Range(factorize(var_peak_col)) \subseteq DOMAIN ctrl_peaks)
    /\ pc' = "error"
    /\ UNCHANGED <<ctrlInputs, update, bins, row, ctrl_peaks, result, varm>>
    /\ UNCHANGED nonCtrlVars

CtrlNext ==
    \/ MethodCall
    \/ MethodRandPeaks
    \/ MethodRandPeaksError
    \/ MethodReturn
    \/ IsuruCall
    \/ IsuruDraw
    \/ IsuruDrawError
    \/ IsuruReturn
    \/ IsuruIndexError

Init == CtrlInit /\ nonCtrlIdle

Next == CtrlNext

Spec == Init /\ [][Next]_vars

----------------------------------------------------------------------------
(* Claims about the control peak sampler (specification Spec). *)

Links == DOMAIN var_peak

\* the row of bins that holds the peak of link i (bins of method.py has one
\* row per link; bins of method-Isuru.py one row per distinct 'peak')
RowOfLink(i) == CHOOSE r \in DOMAIN bins : var_peak[bins[r].ind] = var_peak[i]

\* the confounder bin id of link i
LinkBin(i) == bin_of(RowOfLink(i))

\* the members of the bin of row r other than the row's own index
OtherMembers(r) ==
    IF bin_of(r) = NaNBin THEN {} ELSE bins_grouped(bin_of(r)) \ {bins[r].ind}

\* a row of control indices has b entries, pairwise distinct
DistinctDraw(s) ==
    /\ Len(s) = b
    /\ \A x, y \in 1..Len(s) : x # y => s[x] # s[y]

\* C1: in method.py, row i of the matrix create_ctrl_peaks returns never
\* contains the focal feature's own index i.
C1_RowExcludesSelf ==
    (impl = "method" /\ pc = "returned") =>
        \A i \in DOMAIN result : i \notin Range(result[i])

\* C2: in method-Isuru.py, row i of the returned matrix contains neither i
\* nor the index of any other link that has the same peak as link i.
C2_RowExcludesOwnPeak ==
    (impl = "isuru" /\ pc = "returned") =>
        \A i \in DOMAIN result : \A x \in Range(result[i]) :
            x # i /\ var_peak[x] # var_peak[i]

\* C3: every index in row i of the returned matrix belongs to a feature
\* whose bin id (combined_mfa_gc, or mfa_bin without GC) equals the bin id
\* of feature i.
C3_RowWithinBin ==
    pc = "returned" =>
        \A i \in DOMAIN result : \A x \in Range(result[i]) :
            /\ x \in Links
            /\ LinkBin(x) = LinkBin(i)

\* C4: every row of the control index matrix has exactly b entries, pairwise
\* distinct; this holds of every row as it is drawn and of every row of the
\* matrix returned and stored.
C4_RowsAreDistinctDraws ==
    /\ \A r \in DOMAIN ctrl_peaks : DistinctDraw(ctrl_peaks[r])
    /\ pc = "returned" =>
          /\ DOMAIN result = Links
          /\ \A i \in DOMAIN result : DistinctDraw(result[i])
          /\ update => varm = result

\* C4 witness: the duplicate-aware sampler has returned two controls for
\* each of four links, two of them links of one peak.
C4_Witness ==
    /\ impl = "isuru" /\ pc = "returned" /\ b = 2
    /\ Cardinality(Links) = 4
    /\ Cardinality(DOMAIN bins) = 3
    /\ update /\ varm = result

\* C5: if some feature's bin has fewer than b members other than the
\* feature itself, create_ctrl_peaks does not return and does not write
\* adata.varm['control_peaks'].
C5_SmallBinIsAnError ==
    (pc # "start" /\ \E r \in DOMAIN bins : Cardinality(OtherMembers(r)) < b) =>
        (pc # "returned" /\ result = << >> /\ varm = << >>)

\* C6: in method-Isuru.py, links with the same peak get identical rows, and
\* the row a link gets is the draw made for its own peak: the factorize
\* code of a link is the row of bins that holds the link's peak.
C6_OneDrawPerPeak ==
    (impl = "isuru" /\ pc = "returned") =>
        /\ \A j, k \in Links : var_peak[j] = var_peak[k] => result[j] = result[k]
        /\ \A i \in Links : /\ factorize(var_peak_col)[i] = RowOfLink(i)
                            /\ result[i] = ctrl_peaks[RowOfLink(i)]

----------------------------------------------------------------------------
(* Monte Carlo tester: center_ctrls and mc_pval (method.py).               *)
(*                                                                         *)
(* A floating-point value is a record: [kind |-> "nan"], [kind |-> "inf",  *)
(* num |-> sign] or [kind |-> "fin", num |-> n, var |-> v], the number     *)
(* n / sqrt(v) with v > 0.  A ratio of integers is [kind |-> "fin",        *)
(* num |-> n, den |-> d] with d > 0.                                       *)

Abs(x) == IF x < 0 THEN 0 - x ELSE x

Sign(x) == IF x < 0 THEN 0 - 1 ELSE IF x > 0 THEN 1 ELSE 0

RECURSIVE SeqSum(_)
SeqSum(r) == IF r = << >> THEN 0 ELSE Head(r) + SeqSum(Tail(r))

\* a / c for numbers, as numpy divides: 0/0 is NaN, x/0 is infinite
true_divide(a, c) ==
    IF c = 0
    THEN IF a = 0 THEN [kind |-> "nan"] ELSE [kind |-> "inf", num |-> Sign(a)]
    ELSE [kind |-> "fin", num |-> a * Sign(c), den |-> Abs(c)]

\* (x - np.mean(r)) / np.std(r) for a row r of B values with sum S and sum
\* of squares Q: x - mean = (B*x - S) / B and std = sqrt(B*Q - S*S) / B, so
\* the quotient is (B*x - S) / sqrt(B*Q - S*S); a zero std gives 0/0 = NaN
\* or x/0 = infinity
centered(x, r) ==
    LET B == Len(r)
        S == SeqSum(r)
        Q == SeqSum([k \in 1..B |-> r[k] * r[k]])
        d == B * x - S
        v == B * Q - S * S
    IN  IF v = 0
        THEN IF d = 0 THEN [kind |-> "nan"] ELSE [kind |-> "inf", num |-> Sign(d)]
        ELSE [kind |-> "fin", num |-> d, var |-> v]

\* np.abs of a value
np_abs(a) ==
    IF a.kind = "nan" THEN a ELSE [a EXCEPT !.num = Abs(a.num)]

\* a < c for finite values a.num/sqrt(a.var) and c.num/sqrt(c.var)
FinLess(a, c) ==
    LET l == a.num * a.num * c.var
        r == c.num * c.num * a.var
    IN  IF a.num < 0
        THEN c.num >= 0 \/ l > r
        ELSE c.num > 0 /\ l < r

\* a < c as floating point compares: false when either is NaN
FLess(a, c) ==
    /\ a.kind # "nan" /\ c.kind # "nan"
    /\ \/ a.kind = "fin" /\ c.kind = "fin" /\ FinLess(a, c)
       \/ a.kind = "fin" /\ c.kind = "inf" /\ c.num > 0
       \/ a.kind = "inf" /\ a.num < 0 /\ c.kind = "fin"
       \/ a.kind = "inf" /\ c.kind = "inf" /\ a.num < c.num

\* a >= c as floating point compares: false when either is NaN
FGeq(a, c) == a.kind # "nan" /\ c.kind # "nan" /\ ~FLess(a, c)

\* the order of np.sort and np.searchsorted: as <, with NaN after all else
SortLess(a, c) == a.kind # "nan" /\ (c.kind = "nan" \/ FLess(a, c))

\* ndarray.flatten() of a matrix of n rows (0..n-1) of B values: row-major
flatten(m) ==
    LET n == Cardinality(DOMAIN m)
        B == Len(m[0])
    IN  [k \in 1..(n * B) |-> m[(k - 1) \div B][((k - 1) % B) + 1]]

\* method.py center_ctrls: both arrays centred by each row's null mean and
\* std, then np.abs; the control array flattened
center_ctrls(ctrl_array, main_array) ==
    [ctrls |-> flatten([i \in DOMAIN ctrl_array |->
                           [k \in 1..Len(ctrl_array[i]) |->
                               np_abs(centered(ctrl_array[i][k], ctrl_array[i]))]]),
     main  |-> [i \in DOMAIN main_array |->
                   np_abs(centered(main_array[i], ctrl_array[i]))]]

\* np.sort(a): the k-th entry is the one with k-1 entries before it, equal
\* entries in their order of appearance
np_sort(a) ==
    LET pos(i) == 1 + Cardinality({j \in 1..Len(a) :
                        SortLess(a[j], a[i]) \/ (~SortLess(a[i], a[j]) /\ j < i)})
    IN  [k \in 1..Len(a) |-> a[CHOOSE i \in 1..Len(a) : pos(i) = k]]

\* np.searchsorted(a, v, side='right'): the index after the entries at or
\* below v; what the count would rest on if ties were not counted
searchsorted_right(a, v) ==
    CHOOSE i \in 0..Len(a) :
        /\ \A k \in 1..i : ~SortLess(v, a[k])
        /\ i = Len(a) \/ SortLess(v, a[i + 1])

\* np.searchsorted(a, v) (side='left'): the first index, from 0, at which v
\* can be inserted keeping a sorted; every entry before it is below v
searchsorted(a, v) ==
    CHOOSE i \in 0..Len(a) :
        /\ \A k \in 1..i : SortLess(a[k], v)
        /\ i = Len(a) \/ ~SortLess(a[i + 1], v)

\* indicator / (n*b): the ratio without the Laplace correction
ratio_uncorrected(indicator, n, nb) == true_divide(indicator, n * nb)

\* method.py mc_pval, last line: (1 + indicator) / (1 + n*b)
mc_pval_ratio(indicator, n, nb) == true_divide(1 + indicator, 1 + n * nb)

\* method.py mc_pval
mc_pval(ctrl, main) ==
    LET c      == center_ctrls(ctrl, main)
        sorted == np_sort(c.ctrls)
        n      == Cardinality(DOMAIN ctrl)
        nb     == Len(ctrl[0])
    IN  [i \in DOMAIN main |->
            mc_pval_ratio(Len(sorted) - searchsorted(sorted, c.main[i]), n, nb)]

\* the rows of B null statistics, up to the order within the row (mc_pval
\* reads a row only through its mean, its std and the sorted pool)
NullRows(B) ==
    {r \in [1..B -> StatValues] : \A k \in 1..(B - 1) : r[k] <= r[k + 1]}

McInit ==
    /\ \E n \in 1..MaxFeatures, B \in 1..MaxDraws :
          /\ del_cctrl_full \in Arrays(n, NullRows(B))
          /\ del_c \in Arrays(n, StatValues)
    /\ pvalue = << >>
    /\ mcpc = "called"

\* a call mc_pval(del_cctrl_full, del_c)
McPval ==
    /\ mcpc = "called"
    /\ pvalue' = mc_pval(del_cctrl_full, del_c)
    /\ mcpc' = "done"
    /\ UNCHANGED <<del_cctrl_full, del_c>>
    /\ UNCHANGED nonMcVars

McSpecInit == McInit /\ nonMcIdle

McNext == McPval

SpecMc == McSpecInit /\ [][McNext]_vars

----------------------------------------------------------------------------
(* Claims about the Monte Carlo tester (specification SpecMc). *)

Features == DOMAIN del_c

\* N * B, the size of the null pool
PoolSize == Cardinality(DOMAIN del_cctrl_full) * Len(del_cctrl_full[0])

\* the global pool of centered absolute null values
Pool == center_ctrls(del_cctrl_full, del_c).ctrls

\* the centered absolute observed statistic of feature i
Observed(i) == center_ctrls(del_cctrl_full, del_c).main[i]

\* the null row of feature i has zero standard deviation
ZeroStd(i) ==
    \A k \in 1..Len(del_cctrl_full[i]) : del_cctrl_full[i][k] = del_cctrl_full[i][1]

\* c_i: the pool entries greater than or equal to the observed statistic
AtOrAbove(i) == Cardinality({k \in DOMAIN Pool : FGeq(Pool[k], Observed(i))})

\* the pool entries equal to the observed statistic
Ties(i) ==
    Cardinality({k \in DOMAIN Pool :
                    FGeq(Pool[k], Observed(i)) /\ FGeq(Observed(i), Pool[k])})

\* the observed statistic of feature i equals np.max of the pool: it is a
\* number, no pool entry is NaN or above it, and some entry equals it
ObservedIsPoolMax(i) ==
    /\ \A k \in DOMAIN Pool : FGeq(Observed(i), Pool[k])
    /\ Ties(i) >= 1

\* C7: for every feature i, mc_pval returns (1 + c_i) / (1 + N*B), c_i the
\* number of pool entries greater than or equal to the observed statistic.
C7_PvalIsCountAtOrAbove ==
    mcpc = "done" =>
        \A i \in Features : pvalue[i] = true_divide(1 + AtOrAbove(i), 1 + PoolSize)

\* C8: every p-value mc_pval returns is a number in (0, 1].
C8_PvalInUnitInterval ==
    mcpc = "done" =>
        \A i \in Features :
            /\ pvalue[i].kind = "fin"
            /\ 0 < pvalue[i].num
            /\ pvalue[i].num <= pvalue[i].den

\* C8 witness: mc_pval has returned, for a pool of six values, the smallest
\* p-value 1/7 for one feature and the p-value 1 for another.
C8_Witness ==
    /\ mcpc = "done" /\ PoolSize = 6
    /\ \E i, j \in Features :
          /\ pvalue[i] = true_divide(1, 7)
          /\ pvalue[j] = true_divide(7, 7)

\* C9 as stated: a feature whose observed statistic equals the pool maximum
\* gets the p-value 1 / (1 + N*B).
C9_MaxGivesSmallestPval ==
    mcpc = "done" =>
        \A i \in Features :
            ObservedIsPoolMax(i) => pvalue[i] = true_divide(1, 1 + PoolSize)

\* C9 amended: a feature whose observed statistic equals the pool maximum
\* gets the p-value (1 + k) / (1 + N*B), k >= 1 the number of pool entries
\* equal to that maximum; so its p-value is at least 2 / (1 + N*B).
C9_MaxGivesTiesPval ==
    mcpc = "done" =>
        \A i \in Features :
            ObservedIsPoolMax(i) =>
                /\ pvalue[i] = true_divide(1 + Ties(i), 1 + PoolSize)
                /\ pvalue[i].num >= 2

\* C9 witness: mc_pval has returned 2/7 for a feature whose observed
\* statistic equals the single largest of six pool values.
C9_Witness ==
    /\ mcpc = "done" /\ PoolSize = 6
    /\ \E i \in Features :
          /\ ObservedIsPoolMax(i)
          /\ Ties(i) = 1
          /\ pvalue[i] = true_divide(2, 7)

\* C10: a feature whose null row has zero standard deviation gets a
\* not-a-number p-value.
C10_ZeroStdGivesNaN ==
    mcpc = "done" =>
        \A i \in Features : ZeroStd(i) => pvalue[i].kind = "nan"

----------------------------------------------------------------------------
(* Sparse correlation engine: pearson_corr_sparse (method.py).             *)
(*                                                                         *)
(* A matrix is [rows |-> N, cols |-> M, at |-> columns], at[j][i] the      *)
(* entry of row i (from 1) and column j (from 0).  A one-dimensional       *)
(* argument is the matrix of one column it is reshaped to.  A correlation  *)
(* is [kind |-> "fin", num |-> n, var |-> v], the number n / sqrt(v).      *)

Matrices(N, M) ==
    {[rows |-> N, cols |-> M, at |-> a] :
        a \in [0..(M - 1) -> [1..N -> CountValues]]}

\* numpy broadcasting of two lengths: equal, or one of them 1
Broadcastable(a, c) == a = c \/ a = 1 \/ c = 1

\* the position read along an axis of length n when position k of the
\* broadcast axis is asked for
bidx(k, n, first) == IF n = 1 THEN first ELSE k

\* scdrs.pp._get_mean_var(m, axis=0) at column j, in integers: the column
\* sum S (mean = S/N) and V = N*Q - S*S (variance = E[x^2] - E[x]^2 = V/N^2)
get_mean_var(m, j) ==
    LET S == SeqSum(m.at[j])
        Q == SeqSum([i \in 1..m.rows |-> m.at[j][i] * m.at[j][i]])
    IN  [S |-> S, V |-> m.rows * Q - S * S]

\* v_var <= 1e-6 at column j
low_var(m, j) == get_mean_var(m, j).V <= (m.rows * m.rows) \div VarThresholdInv

\* v_var.clip(1e-8) replaces the variance of column j
floored(m, j) == get_mean_var(m, j).V <= (m.rows * m.rows) \div ClipInv

\* m[:, keep] for a boolean mask given as the set of positions kept
select_columns(m, keep) ==
    LET at(k) == CHOOSE j \in keep : Cardinality({i \in keep : i < j}) = k
    IN  [rows |-> m.rows, cols |-> Cardinality(keep),
         at |-> [k \in 0..(Cardinality(keep) - 1) |-> m.at[at(k)]]]

\* an entry computed without subtracting the product of the means:
\* E[x*y] / sd_x / sd_y
corr_value_uncentered(X, jx, Y, jy) ==
    LET Np == Max(X.rows, Y.rows)
        P  == SeqSum([i \in 1..Np |->
                        X.at[jx][bidx(i, X.rows, 1)] * Y.at[jy][bidx(i, Y.rows, 1)]])
    IN  [kind |-> "fin",
         num  |-> P * X.rows * Y.rows,
         var  |-> Np * Np * get_mean_var(X, jx).V * get_mean_var(Y, jy).V]

\* one entry of mat_corr: (E[x*y] - E[x]E[y]) / sd_x / sd_y for column jx
\* of X and column jy of Y, the rows broadcast as sparse multiply does.
\* With P the sum of products over the Np rows of the product, the
\* covariance is (P*Nx*Ny - Sx*Sy*Np) / (Np*Nx*Ny); a standard deviation is
\* sqrt(V)/N, or 1/10000 when the variance is floored.
corr_value(X, jx, Y, jy) ==
    LET Nx == X.rows
        Ny == Y.rows
        Np == Max(Nx, Ny)
        P  == SeqSum([i \in 1..Np |->
                        X.at[jx][bidx(i, Nx, 1)] * Y.at[jy][bidx(i, Ny, 1)]])
        mx == get_mean_var(X, jx)
        my == get_mean_var(Y, jy)
        fx == floored(X, jx)
        fy == floored(Y, jy)
    IN  [kind |-> "fin",
         num  |-> (P * Nx * Ny - mx.S * my.S * Np)
                     * (IF fx THEN ClipSdInv ELSE 1) * (IF fy THEN ClipSdInv ELSE 1),
         var  |-> Np * Np * (IF fx THEN Nx * Nx ELSE mx.V)
                          * (IF fy THEN Ny * Ny ELSE my.V)]

\* what a raising call leaves in place of a result
Raised == [kind |-> "error"]

\* method.py pearson_corr_sparse.  There is no shape check: the vectors of
\* column statistics broadcast as numpy arrays do (line 56), a boolean mask
\* must have the length of the axis it indexes (line 61), and sparse
\* multiply broadcasts a single row or column and raises on other
\* mismatches (line 68).  The result is the array alone when either matrix
\* is left with one column, the pair (array, ~no_var) under var_filter,
\* and else the array, of shape (1, M) as a column mean of a sparse matrix.
pearson_corr_sparse(X, Y, vf) ==
    LET Mb     == Max(X.cols, Y.cols)
        no_var == [j \in 0..(Mb - 1) |->
                      \/ low_var(X, bidx(j, X.cols, 0))
                      \/ low_var(Y, bidx(j, Y.cols, 0))]
        filter == vf /\ \E j \in 0..(Mb - 1) : no_var[j]
        keep   == {j \in 0..(Mb - 1) : ~no_var[j]}
        Xf     == IF filter THEN select_columns(X, keep) ELSE X
        Yf     == IF filter THEN select_columns(Y, keep) ELSE Y
        Mp     == Max(Xf.cols, Yf.cols)
        vals   == [j \in 0..(Mp - 1) |->
                      corr_value(Xf, bidx(j, Xf.cols, 0), Yf, bidx(j, Yf.cols, 0))]
    IN  IF ~Broadcastable(X.cols, Y.cols) THEN Raised
        ELSE IF filter /\ X.cols # Y.cols THEN Raised
        ELSE IF ~Broadcastable(Xf.rows, Yf.rows) THEN Raised
        ELSE IF Xf.cols = 1 \/ Yf.cols = 1
             THEN [kind |-> "array", shape |-> <<Mp>>, corr |-> vals]
        ELSE IF vf
             THEN [kind |-> "tuple", shape |-> <<1, Mp>>, corr |-> vals,
                   keep |-> [j \in 0..(Mb - 1) |-> ~no_var[j]]]
        ELSE [kind |-> "array", shape |-> <<1, Mp>>, corr |-> vals]

\* the matrices of up to MaxCells rows and MaxCols columns
InputMatrices ==
    UNION {Matrices(N, M) : N \in 1..MaxCells, M \in 1..MaxCols}

PearsonInit ==
    /\ mat_X \in InputMatrices
    /\ mat_Y \in InputMatrices
    /\ var_filter \in BOOLEAN
    /\ mat_corr = << >>
    /\ corrpc = "called"

\* a call pearson_corr_sparse(mat_X, mat_Y, var_filter)
PearsonCorrSparse ==
    /\ corrpc = "called"
    /\ mat_corr' = pearson_corr_sparse(mat_X, mat_Y, var_filter)
    /\ corrpc' = "done"
    /\ UNCHANGED <<mat_X, mat_Y, var_filter>>
    /\ UNCHANGED nonCorrVars

CorrSpecInit == PearsonInit /\ nonCorrIdle

CorrNext == PearsonCorrSparse

SpecCorr == CorrSpecInit /\ [][CorrNext]_vars

----------------------------------------------------------------------------
(* Claims about the sparse correlation engine (specification SpecCorr). *)

\* the two arguments have the same number of rows and of columns
SameShape == mat_X.rows = mat_Y.rows /\ mat_X.cols = mat_Y.cols

\* the columns whose variance in either argument is <= 1e-6
NoVarColumns ==
    {j \in 0..(mat_X.cols - 1) : low_var(mat_X, j) \/ low_var(mat_Y, j)}

\* C11: with var_filter=True, for aligned matrices of M >= 1 columns,
\* pearson_corr_sparse returns a correlation vector and a keep-mask of
\* length M, False exactly at the columns of variance <= 1e-6 in either
\* matrix, and as many correlations as the mask has True entries.
C11_FilterReturnsMask ==
    (corrpc = "done" /\ var_filter /\ SameShape) =>
        /\ mat_corr.kind = "tuple"
        /\ DOMAIN mat_corr.keep = 0..(mat_X.cols - 1)
        /\ \A j \in DOMAIN mat_corr.keep : mat_corr.keep[j] <=> j \notin NoVarColumns
        /\ Cardinality(DOMAIN mat_corr.corr)
              = mat_X.cols - Cardinality(NoVarColumns)

\* C12: pearson_corr_sparse raises whenever its arguments differ in row
\* count or in column count.
C12_ShapeMismatchRaises ==
    (corrpc = "done" /\ ~SameShape) => mat_corr.kind = "error"

\* a correlation equal to 1.0
IsOne(c) == c.num > 0 /\ c.num * c.num = c.var

\* a correlation equal to 0.0
IsZero(c) == c.num = 0

\* C13 as stated: in non-filter mode every column correlated with an
\* identical copy of itself gets 1.0, a constant column included.
C13_SelfCorrIsOne ==
    (corrpc = "done" /\ ~var_filter /\ mat_X = mat_Y) =>
        /\ mat_corr.kind = "array"
        /\ \A j \in DOMAIN mat_corr.corr : IsOne(mat_corr.corr[j])

\* C13 amended: in non-filter mode a column correlated with an identical
\* copy of itself gets 1.0 when its variance is above the floor 1e-8, and
\* 0.0 when it is constant (variance 0, floored before the division).
C13_SelfCorrIsOneAboveFloor ==
    (corrpc = "done" /\ ~var_filter /\ mat_X = mat_Y) =>
        /\ mat_corr.kind = "array"
        /\ DOMAIN mat_corr.corr = 0..(mat_X.cols - 1)
        /\ \A j \in DOMAIN mat_corr.corr :
              /\ ~floored(mat_X, j) => IsOne(mat_corr.corr[j])
              /\ get_mean_var(mat_X, j).V = 0 => IsZero(mat_corr.corr[j])

\* C13 witness: pearson_corr_sparse has correlated a matrix with itself,
\* one column varying (a sparse one, a single nonzero entry) and one
\* constant and nonzero.
C13_Witness ==
    /\ corrpc = "done" /\ ~var_filter /\ mat_X = mat_Y
    /\ mat_X.rows = 3 /\ mat_X.cols = 2
    /\ get_mean_var(mat_X, 0).S = 1
    /\ get_mean_var(mat_X, 1).S = 3
    /\ IsOne(mat_corr.corr[0]) /\ IsZero(mat_corr.corr[1])

----------------------------------------------------------------------------
(* Chunking: chunk_lists (method-Isuru.py). *)

Min(a, c) == IF a <= c THEN a ELSE c

\* the Python slice l[a:c] for 0 <= a, 0 <= c: positions a .. c-1 (from 0)
\* that exist in l
py_slice(l, a, c) == SubSeq(l, a + 1, Min(c, Len(l)))

\* a chunk of fixed size whatever its key: the remainder of the list is
\* not collected
chunk_fixed_size(l, gs, k, ng) == py_slice(l, gs * (k - 1), gs * k)

\* the value the loop body stores at key k: a slice of group_size elements
\* for k <= num_groups, the rest of the list for k = num_groups + 1
chunk(l, gs, k, ng) ==
    IF k < ng + 1
    THEN py_slice(l, gs * (k - 1), gs * k)
    ELSE py_slice(l, gs * (k - 1), Len(l))

ChunkInit ==
    /\ \E n \in 0..MaxLen : lst \in [1..n -> ListElems]
    /\ num_groups \in 1..MaxGroups
    /\ group_size = 0 /\ g = 0
    /\ list_chunks = << >>
    /\ chunkpc = "called"

\* group_size = len(lst)//num_groups; g = 1; list_chunks = {}
ChunkListsEnter ==
    /\ chunkpc = "called"
    /\ group_size' = Len(lst) \div num_groups
    /\ g' = 1
    /\ list_chunks' = << >>
    /\ chunkpc' = "loop"
    /\ UNCHANGED <<lst, num_groups>>
    /\ UNCHANGED nonChunkVars

\* one iteration of  while g <= num_groups+1
ChunkListsIter ==
    /\ chunkpc = "loop" /\ g <= num_groups + 1
    /\ list_chunks' = Store(list_chunks, g, chunk(lst, group_size, g, num_groups))
    /\ g' = g + 1
    /\ UNCHANGED <<lst, num_groups, group_size, chunkpc>>
    /\ UNCHANGED nonChunkVars

\* the loop ends; return list_chunks
ChunkListsReturn ==
    /\ chunkpc = "loop" /\ g > num_groups + 1
    /\ chunkpc' = "returned"
    /\ UNCHANGED <<lst, num_groups, group_size, g, list_chunks>>
    /\ UNCHANGED nonChunkVars

ChunkSpecInit == ChunkInit /\ nonChunkIdle

ChunkNext ==
    \/ ChunkListsEnter
    \/ ChunkListsIter
    \/ ChunkListsReturn

SpecChunk == ChunkSpecInit /\ [][ChunkNext]_vars

----------------------------------------------------------------------------
(* Claims about chunk_lists (specification SpecChunk). *)

\* the chunks of keys 1..k of dictionary d, concatenated in key order
RECURSIVE ConcatChunks(_, _)
ConcatChunks(d, k) == IF k = 0 THEN << >> ELSE ConcatChunks(d, k - 1) \o d[k]

\* the number of elements in the chunks of keys below k
ChunkOffset(d, k) == Len(ConcatChunks(d, k - 1))

\* C15: the chunks chunk_lists returns, concatenated in increasing key
\* order, are lst: each chunk is the contiguous slice of lst that follows
\* the chunks before it, so every element is in exactly one chunk and the
\* order is kept.
C15_ChunksConcatenateToList ==
    chunkpc = "returned" =>
        LET K == Cardinality(DOMAIN list_chunks)
        IN  /\ DOMAIN list_chunks = 1..K
            /\ ConcatChunks(list_chunks, K) = lst
            /\ \A k \in 1..K :
                  list_chunks[k] =
                      SubSeq(lst, ChunkOffset(list_chunks, k) + 1,
                             ChunkOffset(list_chunks, k) + Len(list_chunks[k]))

\* C15 witness: chunk_lists has returned the chunks of a list of four
\* elements for num_groups = 3, the last chunk holding the remainder.
C15_Witness ==
    /\ chunkpc = "returned"
    /\ lst = <<0, 1, 1, 0>> /\ num_groups = 3
    /\ list_chunks[1] = <<0>> /\ list_chunks[4] = <<0>>

\* C16: chunk_lists returns exactly num_groups chunks.
C16_ChunkCountIsNumGroups ==
    chunkpc = "returned" => Cardinality(DOMAIN list_chunks) = num_groups

----------------------------------------------------------------------------
(* Poisson alternative: fit_poisson and get_poiss_coeff (method-Isuru.py). *)
(*                                                                         *)
(* What statsmodels does with the columns of a pair is an input: fits[i]   *)
(* is [kind |-> "raises"] when building or fitting the model raises, and   *)
(* else [kind |-> "float", value |-> v], v the accessibility coefficient   *)
(* result.params[1] of the fit.                                            *)

\* Python's None
None == [kind |-> "None"]

\* what a fit can do
FitOutcomes ==
    {[kind |-> "raises"]}
        \cup {[kind |-> "float", value |-> v] : v \in {0} \cup CoeffValues}

\* fit_poisson(x, y, return_none) for columns whose fit does `outcome`
fit_poisson(outcome, return_none) ==
    IF outcome.kind = "raises"
    THEN IF return_none THEN None ELSE [kind |-> "float", value |-> 0]
    ELSE outcome

\* np.delete(np.arange(n), failed), as a sequence
np_delete(n, dropped) ==
    LET keep  == (0..(n - 1)) \ Range(dropped)
        at(k) == CHOOSE j \in keep : Cardinality({i \in keep : i < j}) = k - 1
    IN  [k \in 1..Cardinality(keep) |-> at(k)]

\* the number of peak-gene pairs, adata.shape[1]
NumPairs == Cardinality(DOMAIN fits)

PoissInit ==
    /\ \E n \in 1..MaxPairs : fits \in Arrays(n, FitOutcomes)
    /\ i_pair = 0
    /\ coeffs = << >> /\ failed = << >>
    /\ poiss_adata = << >>
    /\ poisspc = "loop"

\* one iteration of the loop over pairs: coeff_ = fit_poisson(x[:,i], y[:,i])
\* with the default return_none=True; `not coeff_.any()` is true of 0.0
GetPoissCoeffIter ==
    /\ poisspc = "loop" /\ i_pair < NumPairs
    /\ LET coeff_ == fit_poisson(fits[i_pair], TRUE)
       IN  /\ coeff_ # None
           /\ IF coeff_.value = 0
              THEN failed' = Append(failed, i_pair) /\ UNCHANGED coeffs
              ELSE coeffs' = Append(coeffs, coeff_) /\ UNCHANGED failed
    /\ i_pair' = i_pair + 1
    /\ UNCHANGED <<fits, poiss_adata, poisspc>>
    /\ UNCHANGED nonPoissVars

\* coeff_ is None: coeff_.any() raises AttributeError
GetPoissCoeffError ==
    /\ poisspc = "loop" /\ i_pair < NumPairs
    /\ fit_poisson(fits[i_pair], TRUE) = None
    /\ poisspc' = "error"
    /\ UNCHANGED <<fits, i_pair, coeffs, failed, poiss_adata>>
    /\ UNCHANGED nonPoissVars

\* after the loop: adata = adata[:, np.delete(idx, failed)].copy();
\* adata.var[label] = np.array(coeffs); return adata
GetPoissCoeffReturn ==
    /\ poisspc = "loop" /\ i_pair = NumPairs
    /\ Len(coeffs) = Len(np_delete(NumPairs, failed))
    /\ poiss_adata' = [var_names |-> np_delete(NumPairs, failed),
                       poiss_coeff |-> coeffs]
    /\ poisspc' = "returned"
    /\ UNCHANGED <<fits, i_pair, coeffs, failed>>
    /\ UNCHANGED nonPoissVars

PoissSpecInit == PoissInit /\ nonPoissIdle

PoissNext ==
    \/ GetPoissCoeffIter
    \/ GetPoissCoeffError
    \/ GetPoissCoeffReturn

SpecPoiss == PoissSpecInit /\ [][PoissNext]_vars

----------------------------------------------------------------------------
(* Claims about the Poisson alternative (specification SpecPoiss). *)

\* the pairs whose fit raises
FailedFits == {i \in DOMAIN fits : fits[i].kind = "raises"}

\* C17: when the fit of some pair fails, get_poiss_coeff completes without
\* raising and returns a dataset without the failing pairs, with one
\* coefficient per retained pair, aligned to the retained pairs in their
\* original order.
C17_FailedFitIsDropped ==
    (poisspc \in {"returned", "error"} /\ FailedFits # {}) =>
        /\ poisspc = "returned"
        /\ Range(poiss_adata.var_names) \cap FailedFits = {}
        /\ Len(poiss_adata.poiss_coeff) = Len(poiss_adata.var_names)
        /\ \A k \in 1..Len(poiss_adata.var_names) :
              /\ poiss_adata.poiss_coeff[k] = fits[poiss_adata.var_names[k]]
              /\ k > 1 => poiss_adata.var_names[k - 1] < poiss_adata.var_names[k]

----------------------------------------------------------------------------
(* The links dataset and the pipeline stages (method.py).                  *)
(*                                                                         *)
(* A dataset (AnnData) is a record: layers (the four matrices), celltype   *)
(* (obs['celltype'], one label per cell), var_names (the link of each      *)
(* column), and the dictionaries var, varm and uns as functions from their *)
(* keys.  An absent dataset or dictionary entry is << >> or a missing key. *)
(* A two-dimensional array of statistics is [shape |-> <<n, b>>, at |->    *)
(* rows], rows[i] the sequence of the b values of link i.                  *)
(* The cells come in groups of GroupCells identical cells, one group per   *)
(* cell type, so every correlation over all cells is -1, 0 or 1.           *)

\* filter_vars defaults: min_cells = 10 and min_mean = 0.1 = 1 / MinMeanInv
MinCells == 10

MinMeanInv == 10

\* obs['celltype'] of the groups, and uns['ct_labels']
CellTypes == <<"T", "B">>

CtLabels == ("k1" :> "T") @@ ("k2" :> "B")

\* a dictionary without the keys K
Drop(d, K) == [k \in (DOMAIN d) \ K |-> d[k]]

\* arr[keep] for an array over 0..n-1 and the set of positions kept
take(arr, keep) ==
    LET at(k) == CHOOSE j \in keep : Cardinality({i \in keep : i < j}) = k
    IN  [k \in 0..(Cardinality(keep) - 1) |-> arr[at(k)]]

\* m[keep, :] for the set of rows kept
select_rows(m, keep) ==
    LET at(k) == CHOOSE i \in keep : Cardinality({x \in keep : x < i}) = k - 1
    IN  [rows |-> Cardinality(keep), cols |-> m.cols,
         at |-> [j \in 0..(m.cols - 1) |->
                    [k \in 1..Cardinality(keep) |-> m.at[j][at(k)]]]]

\* m[:, idx] for a list of column positions
fancy_columns(m, idx) ==
    [rows |-> m.rows, cols |-> Len(idx),
     at |-> [k \in 0..(Len(idx) - 1) |-> m.at[idx[k + 1]]]]

\* adata[keep, :]: layers and obs follow the cells
index_obs(adata, keep) ==
    [adata EXCEPT
        !.layers = [l \in DOMAIN @ |-> select_rows(@[l], keep)],
        !.celltype = [k \in 1..Cardinality(keep) |->
                         @[CHOOSE i \in keep :
                               Cardinality({x \in keep : x < i}) = k - 1]]]

\* adata[:, keep]: layers, var and every varm entry follow the columns
index_var(adata, keep) ==
    [adata EXCEPT
        !.layers = [l \in DOMAIN @ |-> select_columns(@[l], keep)],
        !.var_names = take(@, keep),
        !.var = [c \in DOMAIN @ |-> take(@[c], keep)],
        !.varm = [k \in DOMAIN @ |->
                     IF k = "lowexp_ct_mask"
                     THEN [c \in DOMAIN @[k] |-> take(@[k][c], keep)]
                     ELSE IF k = "control_peaks" THEN take(@[k], keep)
                     ELSE [shape |-> <<Cardinality(keep), @[k].shape[2]>>,
                           at |-> take(@[k].at, keep)]]]

\* the positions at which a boolean array holds
where(mask) == {j \in DOMAIN mask : mask[j]}

\* the cells of a label, and the others
cells_of(adata, ct) == {i \in 1..Len(adata.celltype) : adata.celltype[i] = ct}

cells_not_of(adata, ct) == {i \in 1..Len(adata.celltype) : adata.celltype[i] # ct}

\* the matrix of GroupCells identical cells per group, prof[g][j] the value
\* of column j in group g
group_matrix(prof, M) ==
    [rows |-> Len(prof) * GroupCells, cols |-> M,
     at |-> [j \in 0..(M - 1) |->
                [i \in 1..(Len(prof) * GroupCells) |->
                    prof[((i - 1) \div GroupCells) + 1][j]]]]

\* method.py build_adata: the four layers, obs, var and the empty frame of
\* masks; the raw layers hold the same counts as the normalised ones
build_adata(atac, rna) ==
    [layers    |-> [atac |-> atac, rna |-> rna, atac_raw |-> atac, rna_raw |-> rna],
     celltype  |-> [i \in 1..atac.rows |-> CellTypes[((i - 1) \div GroupCells) + 1]],
     var_names |-> [j \in 0..(atac.cols - 1) |-> j],
     var       |-> << >>,
     varm      |-> ("lowexp_ct_mask" :> << >>),
     uns       |-> ("ct_labels" :> CtLabels)]

\* the control peaks a dataset of M links can come with: B distinct
\* positions per link, listed in increasing order
PresetControlPeaks(M) ==
    UNION {[0..(M - 1) ->
               {s \in Samples(0..(M - 1), B) : \A k \in 1..(B - 1) : s[k] < s[k + 1]}]
           : B \in 1..MaxB}

\* the datasets handed to the pipeline
LinksDatasets ==
    UNION {
        LET groups == [1..Len(CellTypes) -> [0..(M - 1) -> CountValues]]
            built  == {build_adata(group_matrix(pa, M), group_matrix(pr, M)) :
                          pa \in groups, pr \in groups}
        IN  built \cup
            {[d EXCEPT !.varm = Store(@, "control_peaks", cp)] :
                d \in built, cp \in PresetControlPeaks(M)}
        : M \in 1..MaxCols}

\* np.float32 of a correlation n / sqrt(v): over two groups of cells it is
\* 0, or 1 or -1 when n * n = v
as_float(c) ==
    IF c.num = 0 THEN 0
    ELSE CHOOSE v \in {0 - 1, 1} : v * c.num > 0 /\ c.num * c.num = c.var

\* method.py get_corrs: the copy of the columns kept by the variance
\* filter, with var['corr']; corr[1] raises when pearson_corr_sparse gave
\* the array alone
get_corrs(adata) ==
    LET with(corr) ==
            IF corr.kind # "tuple" THEN Raised
            ELSE [index_var(adata, where(corr.keep)) EXCEPT !.var =
                     Store(@, "corr", [k \in DOMAIN corr.corr |-> as_float(corr.corr[k])])]
    IN  with(pearson_corr_sparse(adata.layers.rna, adata.layers.atac, TRUE))

\* ctrl_corr[row, :] = v for a row of b slots: numpy broadcasts a single
\* value and raises on any other length
assign_row(v, n_ctrl) ==
    IF Len(v) = n_ctrl THEN [kind |-> "row", at |-> v]
    ELSE IF Len(v) = 1 THEN [kind |-> "row", at |-> [k \in 1..n_ctrl |-> v[1]]]
    ELSE Raised

\* method.py control_corr, one pass of the loop (line 567)
control_corr_row(atac_Xs, rna_Xs, peaks, r, n_ctrl) ==
    LET assigned(v) ==
            IF v.kind = "error" THEN Raised
            ELSE assign_row([k \in 1..Len(peaks[r]) |-> as_float(v.corr[k - 1])], n_ctrl)
    IN  IF \E k \in 1..Len(peaks[r]) : peaks[r][k] \notin 0..(atac_Xs.cols - 1)
        THEN Raised
        ELSE assigned(pearson_corr_sparse(fancy_columns(atac_Xs, peaks[r]),
                                          fancy_columns(rna_Xs, <<r>>), FALSE))

\* method.py control_corr once varm['control_peaks'] is there: the matrix
\* ctrl_corr, or Raised
control_corr(adata, n_ctrl, ct) ==
    LET filled(rows) ==
            IF \E r \in DOMAIN rows : rows[r] = Raised THEN Raised
            ELSE [shape |-> <<adata.layers.rna.cols, n_ctrl>>,
                  at |-> [r \in DOMAIN rows |-> rows[r].at]]
        loop(atac_Xs) ==
            filled([r \in 0..(adata.layers.rna.cols - 1) |->
                       control_corr_row(atac_Xs, adata.layers.rna,
                                        adata.varm["control_peaks"], r, n_ctrl)])
    IN  IF ~ct THEN loop(adata.layers.atac)
        ELSE IF "original_atac" \notin DOMAIN adata.uns THEN Raised
        ELSE loop(adata.uns["original_atac"])

\* the Benjamini-Hochberg value of each entry of an array of p-values
\* (statsmodels multipletests, method='fdr_bh'), kept as a term
fdr_bh(pvals) ==
    [i \in DOMAIN pvals |-> [kind |-> "fdr_bh", pvals |-> pvals, at |-> i]]

\* method.py get_pvals: the dataset with var['mc_pval'] and var['mc_qval'];
\* a missing metric is a KeyError
get_pvals(adata, control_metric, metric) ==
    LET with(p) == [adata EXCEPT !.var = Store(Store(@, "mc_pval", p), "mc_qval", fdr_bh(p))]
    IN  IF control_metric \notin DOMAIN adata.varm \/ metric \notin DOMAIN adata.var
        THEN Raised
        ELSE with(mc_pval(adata.varm[control_metric].at, adata.var[metric]))

\* m.getnnz(axis=0) at column j
getnnz(m, j) == Cardinality({i \in 1..m.rows : m.at[j][i] # 0})

\* m.mean(axis=0) > min_mean at column j; the mean of no cell is NaN,
\* which is above nothing
mean_above(m, j) == MinMeanInv * SeqSum(m.at[j]) > m.rows

\* method.py filter_vars: the mask of the links expressed in the dataset
lowexp_mask(adata) ==
    [j \in 0..(adata.layers.atac.cols - 1) |->
        /\ mean_above(adata.layers.atac, j)
        /\ mean_above(adata.layers.rna, j)
        /\ getnnz(adata.layers.atac_raw, j) > MinCells
        /\ getnnz(adata.layers.rna_raw, j) > MinCells]

\* the mask returned with the dataset left unfiltered
filter_vars_unfiltered(adata) ==
    [ct_adata |-> adata, lowexp_mask |-> lowexp_mask(adata)]

\* method.py filter_vars: the dataset of the links kept and the mask
filter_vars(adata) ==
    LET with(mask) == [ct_adata |-> index_var(adata, where(mask)), lowexp_mask |-> mask]
    IN  with(lowexp_mask(adata))

\* var.drop(columns=['corr','mc_pval']) and del varm['control_corr'] find
\* what they remove
has_general_corrs(adata) ==
    /\ {"corr", "mc_pval"} \subseteq DOMAIN adata.var
    /\ "control_corr" \in DOMAIN adata.varm

\* the general statistics removed, and uns['ct_labels'] = dict(ct_key=ct)
without_general_corrs(adata, ct) ==
    [adata EXCEPT !.var = Drop(@, {"corr", "mc_pval"}),
                  !.varm = Drop(@, {"control_corr"}),
                  !.uns = Store(@, "ct_labels", ("ct_key" :> ct))]

\* method.py filter_ct: the copy of the cells of the cell type
filter_ct(adata, ct_key) ==
    IF ct_key \notin DOMAIN adata.uns["ct_labels"] THEN Raised
    ELSE IF ~has_general_corrs(adata) THEN Raised
    ELSE LET ct == adata.uns["ct_labels"][ct_key]
         IN  without_general_corrs(index_obs(adata, cells_of(adata, ct)), ct)

\* the mask recorded and the dataset given cut down to the links kept
record_mask_in_place(adata, ct, mask) ==
    index_var([adata EXCEPT !.varm["lowexp_ct_mask"] = Store(@, ct, mask)], where(mask))

\* adata.varm['lowexp_ct_mask'][ct] = ct_le_mask: a column of the frame of
\* the dataset given
record_mask(adata, ct, mask) ==
    [adata EXCEPT !.varm["lowexp_ct_mask"] = Store(@, ct, mask)]

\* method.py build_ct_adata: the dataset given as the call leaves it, and
\* the dataset returned
build_ct_adata(adata, ct_key) ==
    LET built(fv, ct) ==
            [adata    |-> record_mask(adata, ct, fv.lowexp_mask),
             ct_adata |-> [fv.ct_adata EXCEPT !.uns =
                             Store(@, "original_atac",
                                   select_rows(adata.layers.atac, cells_of(adata, ct)))]]
        masked(filtered) ==
            IF filtered = Raised THEN Raised
            ELSE built(filter_vars(filtered), filtered.uns["ct_labels"]["ct_key"])
    IN  masked(filter_ct(adata, ct_key))

\* the mask of the complement computed afresh on the cells outside the
\* cell type
complement_mask(adata, ct) == lowexp_mask(index_obs(adata, cells_not_of(adata, ct)))

\* adata.varm['lowexp_ct_mask'][ct].values
recorded_mask(adata, ct) == adata.varm["lowexp_ct_mask"][ct]

\* method.py build_other_adata: the dataset returned; a cell type without
\* a recorded mask is a KeyError
build_other_adata(adata, ct_key) ==
    LET built(ct) ==
            IF ct \notin DOMAIN adata.varm["lowexp_ct_mask"] THEN Raised
            ELSE IF ~has_general_corrs(adata) THEN Raised
            ELSE [without_general_corrs(
                      index_var(index_obs(adata, cells_not_of(adata, ct)),
                                where(recorded_mask(adata, ct))), ct)
                  EXCEPT !.uns = Store(@, "original_atac",
                      select_rows(adata.layers.atac, cells_not_of(adata, ct)))]
    IN  IF ct_key \notin DOMAIN adata.uns["ct_labels"] THEN Raised
        ELSE built(adata.uns["ct_labels"][ct_key])

\* the length of two broadcast lengths
broadcast(a, c) == IF a = 1 THEN c ELSE a

\* method.py get_deltas: the first dataset with var['delta_corr'], and the
\* array returned; the subtraction broadcasts, the column must have one
\* value per link
get_deltas(ct, other) ==
    LET with(deltas) ==
            [ct_adata |-> [ct EXCEPT !.var = Store(@, "delta_corr", deltas)],
             deltas |-> deltas]
        minus(x, y, nx, ny) ==
            IF ~Broadcastable(nx, ny) \/ broadcast(nx, ny) # nx THEN Raised
            ELSE with([k \in 0..(broadcast(nx, ny) - 1) |->
                          x[bidx(k, nx, 0)] - y[bidx(k, ny, 0)]])
    IN  IF "corr" \notin DOMAIN ct.var \/ "corr" \notin DOMAIN other.var THEN Raised
        ELSE minus(ct.var["corr"], other.var["corr"],
                   Cardinality(DOMAIN ct.var["corr"]),
                   Cardinality(DOMAIN other.var["corr"]))

\* method.py get_control_deltas: the first dataset with
\* varm['delta_control_corr'], and the array returned
get_control_deltas(ct, other) ==
    LET with(deltas) ==
            [ct_adata |-> [ct EXCEPT !.varm = Store(@, "delta_control_corr", deltas)],
             deltas |-> deltas]
        minus(x, y, n, w) ==
            IF \/ ~Broadcastable(x.shape[1], y.shape[1])
               \/ ~Broadcastable(x.shape[2], y.shape[2])
               \/ n # x.shape[1]
            THEN Raised
            ELSE with([shape |-> <<n, w>>,
                       at |-> [i \in 0..(n - 1) |-> [k \in 1..w |->
                                  x.at[bidx(i, x.shape[1], 0)][bidx(k, x.shape[2], 1)]
                                  - y.at[bidx(i, y.shape[1], 0)][bidx(k, y.shape[2], 1)]]]])
    IN  IF "control_corr" \notin DOMAIN ct.varm \/ "control_corr" \notin DOMAIN other.varm
        THEN Raised
        ELSE minus(ct.varm["control_corr"], other.varm["control_corr"],
                   broadcast(ct.varm["control_corr"].shape[1],
                             other.varm["control_corr"].shape[1]),
                   broadcast(ct.varm["control_corr"].shape[2],
                             other.varm["control_corr"].shape[2]))

----------------------------------------------------------------------------
(* A run of the pipeline: stage calls on the datasets ds.links (from       *)
(* build_adata), ds.adata (from get_corrs), ds.ct_adata and                *)
(* ds.other_adata (from the builders).  A stage that raises ends the run.  *)

Roles == {"links", "adata", "ct_adata", "other_adata"}

NoCall ==
    [stage |-> "none", args |-> << >>, raised |-> FALSE,
     given |-> << >>, value |-> << >>]

\* the record of a call: its stage and arguments, whether it raised, the
\* datasets it was given as it leaves them, and what it returns
Called(stage, args, raised, given, value) ==
    [stage |-> stage, args |-> args, raised |-> raised,
     given |-> given, value |-> value]

\* a stage can be called: nothing raised and no call is unfinished
Ready == ~call.raised /\ pc = "idle" /\ cc = << >>

\* a dataset of a cell type that no stage was called on yet
AsBuilt(adata) ==
    IF adata = << >> THEN TRUE
    ELSE /\ {"corr", "mc_pval", "delta_corr"} \cap DOMAIN adata.var = {}
         /\ {"control_corr", "delta_control_corr"} \cap DOMAIN adata.varm = {}

\* the run builds its cell-type datasets first
BuildPhase == nbuilds < MaxBuilds /\ AsBuilt(ds.ct_adata) /\ AsBuilt(ds.other_adata)

\* the stages are called on the main dataset, or on a cell type's dataset
\* once it and its complement are built
Callable(t) ==
    /\ ds[t] # << >>
    /\ t \in {"ct_adata", "other_adata"} =>
          /\ ds.ct_adata # << >> /\ ds.other_adata # << >>
          /\ ds.ct_adata.uns["ct_labels"] = ds.other_adata.uns["ct_labels"]

PipeInit ==
    /\ ds \in {[links |-> d, adata |-> << >>, ct_adata |-> << >>,
                other_adata |-> << >>] : d \in LinksDatasets}
    /\ cc = << >>
    /\ call = NoCall
    /\ nbuilds = 0

\* adata = get_corrs(links), ct_adata = get_corrs(ct_adata) and
\* other_adata = get_corrs(other_adata)
GetCorrs ==
    /\ Ready
    /\ \E t \in {"links", "ct_adata", "other_adata"} :
          /\ Callable(t) /\ "corr" \notin DOMAIN ds[t].var
          /\ t = "links" => ds.adata = << >>
          /\ \E r \in {get_corrs(ds[t])} :
                /\ ds' = IF r = Raised THEN ds
                         ELSE [ds EXCEPT ![IF t = "links" THEN "adata" ELSE t] = r]
                /\ call' = Called("get_corrs", <<t>>, r = Raised, t :> ds[t], r)
    /\ UNCHANGED <<cc, nbuilds>>
    /\ UNCHANGED <<ctrlVars, libVars>>

\* create_ctrl_peaks(ds.adata, b=n_ctrl) is entered: the sampler reads the
\* mean accessibility of the links and their GC content
EnterCreateCtrlPeaks(n_ctrl) ==
    LET atac == ds.adata.layers.atac
    IN  /\ impl' = "method"
        /\ var_peak' = [i \in 0..(atac.cols - 1) |-> i + 1]
        /\ var_peak_col' = var_peak'
        /\ mfa' = [j \in 0..(atac.cols - 1) |-> SeqSum(atac.at[j])]
        /\ gc' \in Arrays(atac.cols, CovariateLevels)
        /\ num_bins' = MethodNumBins
        /\ b' = n_ctrl
        /\ use_gc' = TRUE /\ update' = FALSE
        /\ pc' = "start"
        /\ bins' = << >> /\ row' = 0
        /\ ctrl_peaks' = << >> /\ result' = << >> /\ varm' = << >>

\* the sampler's frame is left
LeaveCreateCtrlPeaks ==
    /\ impl' = "none"
    /\ var_peak' = << >> /\ var_peak_col' = << >>
    /\ mfa' = << >> /\ gc' = << >>
    /\ num_bins' = 0 /\ b' = 0
    /\ use_gc' = FALSE /\ update' = FALSE
    /\ pc' = "idle"
    /\ bins' = << >> /\ row' = 0
    /\ ctrl_peaks' = << >> /\ result' = << >> /\ varm' = << >>

\* a dataset has links and no control peaks yet
NeedsControlPeaks(adata) ==
    /\ adata # << >>
    /\ adata.layers.atac.cols >= 1
    /\ "control_peaks" \notin DOMAIN adata.varm

\* a call create_ctrl_peaks(adata, b=n_ctrl, update=...)
CreateCtrlPeaks ==
    /\ Ready
    /\ NeedsControlPeaks(ds.adata)
    /\ \E n_ctrl \in 1..MaxB : EnterCreateCtrlPeaks(n_ctrl)
    /\ UNCHANGED pipeVars
    /\ UNCHANGED libVars

\* create_ctrl_peaks returns to the pipeline: varm['control_peaks'] is the
\* one written under update
CreateCtrlPeaksReturn ==
    /\ pc = "returned" /\ cc = << >> /\ ds # << >>
    /\ LET after == IF update
                    THEN [ds.adata EXCEPT !.varm = Store(@, "control_peaks", varm)]
                    ELSE ds.adata
       IN  /\ ds' = [ds EXCEPT !.adata = after]
           /\ call' = Called("create_ctrl_peaks", <<b, update>>, FALSE,
                             "adata" :> after, result)
    /\ LeaveCreateCtrlPeaks
    /\ UNCHANGED <<cc, nbuilds>>
    /\ UNCHANGED libVars

\* create_ctrl_peaks raised, in a call of its own or inside control_corr
CreateCtrlPeaksRaise ==
    /\ pc = "error" /\ ds # << >>
    /\ call' = Called(IF cc = << >> THEN "create_ctrl_peaks" ELSE "control_corr",
                      IF cc = << >> THEN <<b>> ELSE <<cc.target, cc.b, cc.update, cc.ct>>,
                      TRUE, "adata" :> ds.adata, Raised)
    /\ cc' = << >>
    /\ LeaveCreateCtrlPeaks
    /\ UNCHANGED <<ds, nbuilds>>
    /\ UNCHANGED libVars

\* a loop that writes varm['control_corr'] whatever update is
ControlCorrLoopWriting(t, adata, n_ctrl, upd, ct) ==
    \E ctrl_corr \in {control_corr(adata, n_ctrl, ct)} :
       \E after \in {IF ctrl_corr # Raised
                     THEN [adata EXCEPT !.varm = Store(@, "control_corr", ctrl_corr)]
                     ELSE adata} :
          /\ ds' = [ds EXCEPT ![t] = after]
          /\ call' = Called("control_corr", <<t, n_ctrl, upd, ct>>,
                            ctrl_corr = Raised, t :> after, ctrl_corr)

\* control_corr from line 557 on, for the dataset `adata` bound to t
ControlCorrLoop(t, adata, n_ctrl, upd, ct) ==
    \E ctrl_corr \in {control_corr(adata, n_ctrl, ct)} :
       \E after \in {IF upd /\ ctrl_corr # Raised
                     THEN [adata EXCEPT !.varm = Store(@, "control_corr", ctrl_corr)]
                     ELSE adata} :
          /\ ds' = [ds EXCEPT ![t] = after]
          /\ call' = Called("control_corr", <<t, n_ctrl, upd, ct>>,
                            ctrl_corr = Raised, t :> after, ctrl_corr)

\* a call control_corr(adata, b, update, ct) on a dataset with control peaks
ControlCorr ==
    /\ Ready
    /\ \E t \in {"adata", "ct_adata", "other_adata"}, n_ctrl \in 1..MaxB,
          upd \in BOOLEAN, ct \in BOOLEAN :
          /\ Callable(t)
          /\ t # "adata" => upd /\ ct
          /\ "control_peaks" \in DOMAIN ds[t].varm
          /\ "control_corr" \notin DOMAIN ds[t].varm
          /\ ControlCorrLoop(t, ds[t], n_ctrl, upd, ct)
    /\ UNCHANGED <<cc, nbuilds>>
    /\ UNCHANGED <<ctrlVars, libVars>>

\* a call control_corr(adata, b, update, ct) on a dataset without control
\* peaks: create_ctrl_peaks(adata, b=b) is called first (lines 551-555)
ControlCorrCreates ==
    /\ Ready
    /\ NeedsControlPeaks(ds.adata)
    /\ \E n_ctrl \in 1..MaxB, upd \in BOOLEAN, ct \in BOOLEAN :
          /\ cc' = [target |-> "adata", b |-> n_ctrl, update |-> upd, ct |-> ct]
          /\ EnterCreateCtrlPeaks(n_ctrl)
    /\ UNCHANGED <<ds, call, nbuilds>>
    /\ UNCHANGED libVars

\* control_corr goes on after the create_ctrl_peaks it called
ControlCorrResume ==
    /\ pc = "returned" /\ cc # << >>
    /\ ControlCorrLoop(cc.target,
                       [ds[cc.target] EXCEPT !.varm = Store(@, "control_peaks", varm)],
                       cc.b, cc.update, cc.ct)
    /\ cc' = << >>
    /\ LeaveCreateCtrlPeaks
    /\ UNCHANGED nbuilds
    /\ UNCHANGED libVars

\* the (control_metric, metric) pairs get_pvals is called with
Metrics == {<<"control_corr", "corr">>, <<"delta_control_corr", "delta_corr">>}

\* a call get_pvals(adata, control_metric, metric)
GetPvals ==
    /\ Ready
    /\ \E t \in {"adata", "ct_adata", "other_adata"}, m \in Metrics :
          /\ Callable(t)
          /\ ds[t].layers.atac.cols >= 1
          /\ "mc_pval" \notin DOMAIN ds[t].var
          /\ \E r \in {get_pvals(ds[t], m[1], m[2])} :
             \E after \in {IF r = Raised THEN ds[t] ELSE r} :
                /\ ds' = [ds EXCEPT ![t] = after]
                /\ call' = Called("get_pvals", <<t, m[1], m[2]>>, r = Raised,
                                  t :> after, r)
    /\ UNCHANGED <<cc, nbuilds>>
    /\ UNCHANGED <<ctrlVars, libVars>>

\* ct_adata = build_ct_adata(adata, ct_key)
BuildCtAdata ==
    /\ Ready
    /\ ds.adata # << >>
    /\ BuildPhase
    /\ \E ct_key \in DOMAIN CtLabels :
       \E r \in {build_ct_adata(ds.adata, ct_key)} :
          /\ ds' = IF r = Raised THEN ds
                   ELSE [ds EXCEPT !.adata = r.adata, !.ct_adata = r.ct_adata]
          /\ call' = Called("build_ct_adata", <<ct_key>>, r = Raised,
                            "adata" :> ds'.adata,
                            IF r = Raised THEN Raised ELSE r.ct_adata)
    /\ nbuilds' = nbuilds + 1
    /\ UNCHANGED cc
    /\ UNCHANGED <<ctrlVars, libVars>>

\* other_adata = build_other_adata(adata, ct_key)
BuildOtherAdata ==
    /\ Ready
    /\ ds.adata # << >>
    /\ BuildPhase
    /\ \E ct_key \in DOMAIN CtLabels :
       \E r \in {build_other_adata(ds.adata, ct_key)} :
          /\ ds' = IF r = Raised THEN ds ELSE [ds EXCEPT !.other_adata = r]
          /\ call' = Called("build_other_adata", <<ct_key>>, r = Raised,
                            "adata" :> ds.adata, r)
    /\ nbuilds' = nbuilds + 1
    /\ UNCHANGED cc
    /\ UNCHANGED <<ctrlVars, libVars>>

\* a call get_deltas(ct_adata, other_adata)
GetDeltas ==
    /\ Ready
    /\ Callable("ct_adata")
    /\ "delta_corr" \notin DOMAIN ds.ct_adata.var
    /\ \E r \in {get_deltas(ds.ct_adata, ds.other_adata)} :
          /\ ds' = IF r = Raised THEN ds ELSE [ds EXCEPT !.ct_adata = r.ct_adata]
          /\ call' = Called("get_deltas", << >>, r = Raised,
                            ("ct_adata" :> ds'.ct_adata) @@ ("other_adata" :> ds.other_adata),
                            IF r = Raised THEN Raised ELSE r.deltas)
    /\ UNCHANGED <<cc, nbuilds>>
    /\ UNCHANGED <<ctrlVars, libVars>>

\* a call get_control_deltas(ct_adata, other_adata)
GetControlDeltas ==
    /\ Ready
    /\ Callable("ct_adata")
    /\ "delta_control_corr" \notin DOMAIN ds.ct_adata.varm
    /\ \E r \in {get_control_deltas(ds.ct_adata, ds.other_adata)} :
          /\ ds' = IF r = Raised THEN ds ELSE [ds EXCEPT !.ct_adata = r.ct_adata]
          /\ call' = Called("get_control_deltas", << >>, r = Raised,
                            ("ct_adata" :> ds'.ct_adata) @@ ("other_adata" :> ds.other_adata),
                            IF r = Raised THEN Raised ELSE r.deltas)
    /\ UNCHANGED <<cc, nbuilds>>
    /\ UNCHANGED <<ctrlVars, libVars>>

PipeSpecInit == PipeInit /\ ctrlIdle /\ libIdle

PipeNext ==
    \/ GetCorrs
    \/ CreateCtrlPeaks
    \/ MethodCall
    \/ MethodRandPeaks
    \/ MethodRandPeaksError
    \/ MethodReturn
    \/ CreateCtrlPeaksReturn
    \/ CreateCtrlPeaksRaise
    \/ ControlCorr
    \/ ControlCorrCreates
    \/ ControlCorrResume
    \/ GetPvals
    \/ BuildCtAdata
    \/ BuildOtherAdata
    \/ GetDeltas
    \/ GetControlDeltas

SpecPipe == PipeSpecInit /\ [][PipeNext]_vars

----------------------------------------------------------------------------
(* Claims about the pipeline stages (specification SpecPipe). *)

\* the last call was a control_corr on a dataset with links that returned
ControlCorrReturned ==
    /\ call.stage = "control_corr" /\ ~call.raised
    /\ ds[call.args[1]].layers.rna.cols >= 1

\* the accessibility matrix control_corr read: uns['original_atac'] under
\* ct, else the layer
AccessibilityRead ==
    IF call.args[4] THEN ds[call.args[1]].uns["original_atac"]
    ELSE ds[call.args[1]].layers.atac

\* C14: the matrix control_corr returns has the shape of
\* varm['control_peaks'] and its entry [i, k] is the correlation of
\* accessibility column control_peaks[i, k] with expression column i; in
\* particular a call whose b is not the number of columns of control_peaks
\* returns no matrix of another shape or with repeated values
C14_NullMatrixMatchesControlPeaks ==
    ControlCorrReturned =>
        LET adata == ds[call.args[1]]
            peaks == adata.varm["control_peaks"]
        IN  /\ call.value.shape = <<adata.layers.rna.cols, Len(peaks[0])>>
            /\ \A i \in DOMAIN peaks : \A k \in 1..Len(peaks[i]) :
                  call.value.at[i][k] =
                      as_float(corr_value(AccessibilityRead, peaks[i][k],
                                          adata.layers.rna, i))

\* the last call was a build_other_adata that returned, for the cell type
\* ds.ct_adata was built for
BuiltPair ==
    /\ call.stage = "build_other_adata" /\ ~call.raised
    /\ ds.ct_adata # << >>
    /\ ds.ct_adata.uns["ct_labels"] = ds.other_adata.uns["ct_labels"]

\* C18: after build_ct_adata(adata, ct_key) and then
\* build_other_adata(adata, ct_key), the cell type's dataset and its
\* complement keep the same links in the same order
C18_PairKeepsSameLinks ==
    BuiltPair => ds.ct_adata.var_names = ds.other_adata.var_names

\* C18 happens: a pair was built that keeps some links of the dataset and
\* drops others
C18_Witness ==
    /\ BuiltPair
    /\ ds.ct_adata.var_names # << >>
    /\ ds.ct_adata.var_names # ds.adata.var_names

\* the frame of recorded masks of the main dataset
Frame == IF ds.adata = << >> THEN << >> ELSE ds.adata.varm["lowexp_ct_mask"]

\* a step is a call of the builder named
BuilderStep(stage) == nbuilds' # nbuilds /\ call'.stage = stage

\* C19: the frame of masks changes only in a build_ct_adata call that
\* returns, which records under its cell type the mask of the dataset it
\* returns; build_other_adata for a cell type keeps the links of exactly
\* the mask the frame holds for it (the one the latest build_ct_adata for
\* it recorded), and raises when the frame holds none
C19_OtherUsesRecordedMask ==
    [][/\ ds.adata # << >> /\ ~(BuilderStep("build_ct_adata") /\ ~call'.raised)
          => Frame' = Frame
       /\ BuilderStep("build_ct_adata") /\ ~call'.raised =>
             LET ct == CtLabels[call'.args[1]]
             IN  /\ DOMAIN Frame' = DOMAIN Frame \cup {ct}
                 /\ \A c \in DOMAIN Frame \ {ct} : Frame'[c] = Frame[c]
                 /\ ds'.ct_adata.var_names = take(ds.adata.var_names, where(Frame'[ct]))
       /\ BuilderStep("build_other_adata") =>
             LET ct == CtLabels[call'.args[1]]
             IN  IF ct \notin DOMAIN Frame THEN call'.raised
                 ELSE /\ ~call'.raised
                      /\ ds'.other_adata.var_names =
                            take(ds.adata.var_names, where(Frame[ct]))
      ]_vars

\* C19 happens: build_other_adata returned with the links of a recorded
\* mask that is not the mask of the complement, while the frame also holds
\* the mask of another cell type
C19_Witness ==
    /\ call.stage = "build_other_adata" /\ ~call.raised
    /\ \E ct \in DOMAIN Frame :
          /\ ds.other_adata.uns["ct_labels"] = ("ct_key" :> ct)
          /\ Frame[ct] # complement_mask(ds.adata, ct)
          /\ \E c \in DOMAIN Frame : c # ct /\ Frame[c] # Frame[ct]

\* the stages whose returned dataset is bound to a name of the run
Returning == {"get_corrs", "build_ct_adata", "build_other_adata"}

\* C20: no stage changes the four layers of a dataset it is given, and a
\* dataset of the run changes layers only by being rebound to the dataset
\* a stage returns
C20_LayersAreReadOnly ==
    [][/\ ds' # ds =>
             \A r \in DOMAIN call'.given : call'.given[r].layers = ds[r].layers
       /\ \A r \in DOMAIN ds :
             ds[r] # << >> =>
                IF ds'[r].layers = ds[r].layers THEN TRUE
                ELSE /\ call'.stage \in Returning /\ ~call'.raised
                     /\ ds'[r] = call'.value
      ]_vars

\* C20 happens: a stage wrote to the dataset it was given (build_ct_adata
\* recorded a mask that drops a link) and the later stages ran on the
\* cell-type datasets
C20_Witness ==
    /\ call.stage = "get_control_deltas" /\ ~call.raised
    /\ \E ct \in DOMAIN Frame : \E j \in DOMAIN Frame[ct] : ~Frame[ct][j]
    /\ "control_corr" \in DOMAIN ds.adata.varm
    /\ "mc_pval" \in DOMAIN ds.adata.var

\* a step is a call of the stage named that started and ended in it
StageStep(stage) == pc = "idle" /\ pc' = "idle" /\ call'.stage = stage

\* the links of a dataset whose variance is above 1e-6 in both layers
VaryingLinks(adata) ==
    {j \in 0..(adata.layers.atac.cols - 1) :
        ~low_var(adata.layers.atac, j) /\ ~low_var(adata.layers.rna, j)}

\* C21: for every dataset of M >= 1 links, get_corrs returns a dataset
\* whose link identifiers are the input's links with variance > 1e-6 in
\* both layers, in the input's order, with one 'corr' value per link kept,
\* and the dataset it was given keeps its links
C21_GetCorrsKeepsVaryingLinks ==
    [][StageStep("get_corrs") =>
          LET t == call'.args[1]
          IN  /\ ~call'.raised
              /\ call'.value.var_names = take(ds[t].var_names, VaryingLinks(ds[t]))
              /\ DOMAIN call'.value.var["corr"] =
                    0..(Cardinality(VaryingLinks(ds[t])) - 1)
              /\ call'.given[t].var_names = ds[t].var_names
      ]_vars

----------------------------------------------------------------------------
(* Seeded runs of the sampler: the caller seeds the random source          *)
(* (random.seed for method.py, np.random.seed for method-Isuru.py), calls  *)
(* create_ctrl_peaks, seeds it again with the same seed and calls          *)
(* create_ctrl_peaks again on the same dataset with the same arguments.    *)
(* A generator is a function of its state: seeded alike and asked the same *)
(* questions in the same order, it gives the same answers.                 *)

\* the draws random.sample / np.random.choice can return for row r
candidates(r) == IF impl = "method" THEN rand_peaks(r) ELSE isuru_choice(r)

\* the generator reaches row r in the state it had there after the first
\* seeding: every draw so far asked what was asked then
replayed(r) ==
    \A q \in 0..r : q \in DOMAIN tape /\ tape[q].candidates = candidates(q)

\* a generator that is not a function of its seed
generator_free(r, s) == TRUE

\* the draw s is one the generator gives at row r: any candidate in a state
\* it reaches for the first time, the same draw in a state it was in before
generator_gives(r, s) == replayed(r) => s = tape[r].sample

SeedInit ==
    /\ seedings = 1
    /\ tape = << >>
    /\ first_result = << >>

\* method.py: random.sample(row_bin_copy['ind'], k=b) of a seeded generator
SeededRandPeaks == MethodRandPeaks /\ generator_gives(row, ctrl_peaks'[row])

\* method-Isuru.py: np.random.choice(...) of a seeded generator
SeededChoice == IsuruDraw /\ generator_gives(row, ctrl_peaks'[row])

\* the caller seeds the random source with the same seed and calls
\* create_ctrl_peaks again on the same dataset with the same arguments
SeedAgain ==
    /\ pc = "returned" /\ seedings = 1
    /\ seedings' = 2
    /\ tape' = [r \in DOMAIN ctrl_peaks |->
                   [candidates |-> candidates(r), sample |-> ctrl_peaks[r]]]
    /\ first_result' = result
    /\ pc' = "start"
    /\ bins' = << >> /\ row' = 0
    /\ ctrl_peaks' = << >> /\ result' = << >>
    /\ UNCHANGED <<ctrlInputs, update, varm>>
    /\ UNCHANGED <<mcVars, corrVars, chunkVars, poissVars, pipeVars>>

\* the seeded runs are on the datasets of CtrlInit whose peaks all have the
\* same GC content (rank(method='first') ranks them in order of appearance)
SeedSpecInit ==
    /\ CtrlInit /\ SeedInit
    /\ gc = [i \in DOMAIN gc |-> 0]
    /\ impl = "isuru" => Cardinality(DOMAIN var_peak) <= SeedLinks
    /\ mcIdle /\ corrIdle /\ chunkIdle /\ poissIdle /\ pipeIdle

SeedNext ==
    \/ MethodCall
    \/ SeededRandPeaks
    \/ MethodRandPeaksError
    \/ MethodReturn
    \/ IsuruCall
    \/ SeededChoice
    \/ IsuruDrawError
    \/ IsuruReturn
    \/ IsuruIndexError
    \/ SeedAgain

SpecSeed == SeedSpecInit /\ [][SeedNext]_vars

----------------------------------------------------------------------------
(* The Monte Carlo tester of method-Isuru.py (specification SpecMcIsuru).  *)

\* np.abs of a matrix of rows, and of an array
abs_matrix(m) == [i \in DOMAIN m |-> [k \in 1..Len(m[i]) |-> Abs(m[i][k])]]

abs_array(a) == [i \in DOMAIN a |-> Abs(a[i])]

\* a center_ctrls that takes np.abs of what it centered, as method.py's
isuru_center_ctrls_abs_after(ctrl_array, main_array) ==
    center_ctrls(ctrl_array, main_array)

\* method-Isuru.py center_ctrls: both arrays centred by each row's null
\* mean and std and returned signed; the control array flattened
isuru_center_ctrls(ctrl_array, main_array) ==
    [ctrls |-> flatten([i \in DOMAIN ctrl_array |->
                           [k \in 1..Len(ctrl_array[i]) |->
                               centered(ctrl_array[i][k], ctrl_array[i])]]),
     main  |-> [i \in DOMAIN main_array |->
                   centered(main_array[i], ctrl_array[i])]]

\* method-Isuru.py mc_pval: center_ctrls(np.abs(del_cctrl_full), np.abs(del_c))
isuru_mc_pval(ctrl, main) ==
    LET with(c) ==
            LET sorted == np_sort(c.ctrls)
            IN  [i \in DOMAIN main |->
                    mc_pval_ratio(Len(sorted) - searchsorted(sorted, c.main[i]),
                                  Cardinality(DOMAIN ctrl), Len(ctrl[0]))]
    IN  with(isuru_center_ctrls(abs_matrix(ctrl), abs_array(main)))

\* a call mc_pval(del_cctrl_full, del_c) of method-Isuru.py
IsuruMcPval ==
    /\ mcpc = "called"
    /\ pvalue' = isuru_mc_pval(del_cctrl_full, del_c)
    /\ mcpc' = "done"
    /\ UNCHANGED <<del_cctrl_full, del_c>>
    /\ UNCHANGED nonMcVars

McIsuruNext == IsuruMcPval

SpecMcIsuru == McSpecInit /\ [][McIsuruNext]_vars

\* the observed statistic of feature i as method-Isuru.py centers it
IsuruObserved(i) ==
    isuru_center_ctrls(abs_matrix(del_cctrl_full), abs_array(del_c)).main[i]

\* the absolute observed statistic of feature i is below the mean of the
\* absolute values of its null row
BelowAbsMean(i) ==
    Len(del_cctrl_full[i]) * Abs(del_c[i])
        < SeqSum([k \in 1..Len(del_cctrl_full[i]) |-> Abs(del_cctrl_full[i][k])])

\* C23: method-Isuru.py's mc_pval takes absolute values first (its p-values
\* are those of the absolute values of its arguments) and centers them with
\* no absolute value afterwards (an observed statistic below its row's mean
\* stays negative), where method.py centers the signed values and then
\* takes absolute values
C23_IsuruCentersAbsoluteValues ==
    mcpc = "done" =>
        /\ pvalue = isuru_mc_pval(abs_matrix(del_cctrl_full), abs_array(del_c))
        /\ \A i \in Features :
              /\ IsuruObserved(i).kind = "fin" =>
                    (IsuruObserved(i).num < 0 <=> BelowAbsMean(i))
              /\ Observed(i).kind = "fin" => Observed(i).num >= 0

\* C23 happens: on some null matrix and observed vector the two mc_pval
\* return different p-values for a feature, both of them numbers
C23_Witness ==
    /\ mcpc = "done"
    /\ \E i \in Features :
          /\ pvalue[i].kind = "fin"
          /\ mc_pval(del_cctrl_full, del_c)[i].kind = "fin"
          /\ pvalue[i] # mc_pval(del_cctrl_full, del_c)[i]

----------------------------------------------------------------------------
(* control_corr_fast of method-Isuru.py (specification SpecFast): the null *)
(* correlations computed chunk by chunk.  The caller passes as rna_adata   *)
(* the expression matrix of the dataset, and as b the number of columns of *)
(* varm['control_peaks'].                                                  *)

\* the concatenation of a sequence of sequences
RECURSIVE Flat(_)
Flat(ss) == IF ss = << >> THEN << >> ELSE Head(ss) \o Flat(Tail(ss))

\* list(range(n))
py_range(n) == [k \in 1..n |-> k - 1]

\* np.tile(X[:, cols][:, :, np.newaxis], (1, 1, b)).reshape(rows, cols * b):
\* the column positions read, each column b times in a row
tiled(cols, n_ctrl) ==
    [k \in 1..(Len(cols) * n_ctrl) |-> cols[((k - 1) \div n_ctrl) + 1]]

\* ctrl_corr_chunk.reshape(cols, b) of what pearson_corr_sparse returned
reshape_chunk(v, cols, n_ctrl) ==
    IF v.kind = "error" THEN Raised
    ELSE IF Cardinality(DOMAIN v.corr) # cols * n_ctrl THEN Raised
    ELSE [kind |-> "rows",
          at |-> [c \in 1..cols |->
                     [k \in 1..n_ctrl |-> as_float(v.corr[(c - 1) * n_ctrl + k - 1])]]]

\* one pass of the loop over the chunks (lines 609-616); np.concatenate of
\* an empty list raises ValueError
fast_chunk(atac_Xs, rna_X, peaks, rows, cols, n_ctrl) ==
    LET corr_of(index_arr) ==
            IF \E k \in 1..Len(index_arr) : index_arr[k] \notin 0..(atac_Xs.cols - 1)
            THEN Raised
            ELSE reshape_chunk(
                     pearson_corr_sparse(fancy_columns(atac_Xs, index_arr),
                                         fancy_columns(rna_X, tiled(cols, n_ctrl)),
                                         FALSE),
                     Len(cols), n_ctrl)
    IN  IF rows = << >> THEN Raised
        ELSE corr_of(Flat([k \in 1..Len(rows) |-> peaks[rows[k]]]))

\* np.vstack(pearson_corrs) of the chunks, or the exception of the first
\* chunk that raised
vstack(chunks, n_ctrl) ==
    LET stacked(rows) ==
            [shape |-> <<Len(rows), n_ctrl>>,
             at |-> [r \in 0..(Len(rows) - 1) |-> rows[r + 1]]]
    IN  IF \E i \in DOMAIN chunks : chunks[i].kind = "error" THEN Raised
        ELSE stacked(Flat([i \in DOMAIN chunks |-> chunks[i].at]))

\* method-Isuru.py control_corr_fast once varm['control_peaks'] is there:
\* the matrix ctrl_corr, or Raised
control_corr_fast(adata, rna_X, n_ctrl) ==
    LET peaks == adata.varm["control_peaks"]
        N == Cardinality(DOMAIN peaks)
    IN  vstack([i \in 1..(FastChunks + 1) |->
                   fast_chunk(adata.layers.atac, rna_X, peaks,
                              chunk(py_range(N), N \div FastChunks, i, FastChunks),
                              chunk(py_range(rna_X.cols), rna_X.cols \div FastChunks,
                                    i, FastChunks),
                              n_ctrl)],
               n_ctrl)

\* the column of the two cells with the binary digits of k
cell_profile(k) == <<k % 2, (k \div 2) % 2>>

\* a matrix of two cells and N columns, column j the profile s + j
profile_matrix(N, s) ==
    [rows |-> 2, cols |-> N,
     at |-> [j \in 0..(N - 1) |-> cell_profile((s + j) % 4)]]

\* the datasets control_corr_fast is called on: N links, B control peaks
\* per link
FastDatasets ==
    {[build_adata(profile_matrix(N, sa), profile_matrix(N, sr)) EXCEPT
         !.varm = Store(@, "control_peaks",
                        [r \in 0..(N - 1) |-> [k \in 1..B |-> (r + k) % N]])] :
        N \in 1..FastMaxLinks, B \in 1..MaxB, sa \in 0..3, sr \in 0..3}

FastInit ==
    /\ ds \in {[links |-> << >>, adata |-> d, ct_adata |-> << >>,
                other_adata |-> << >>] : d \in FastDatasets}
    /\ cc = << >>
    /\ call = NoCall
    /\ nbuilds = 0

\* a call control_corr_fast(adata, b, update, rna_adata=...)
ControlCorrFast ==
    /\ call.stage = "none"
    /\ \E upd \in BOOLEAN :
       \E r \in {control_corr_fast(ds.adata, ds.adata.layers.rna,
                                   Len(ds.adata.varm["control_peaks"][0]))} :
       \E after \in {IF upd /\ r # Raised
                     THEN [ds.adata EXCEPT !.varm = Store(@, "control_corr", r)]
                     ELSE ds.adata} :
          /\ ds' = [ds EXCEPT !.adata = after]
          /\ call' = Called("control_corr_fast",
                            <<"adata", Len(ds.adata.varm["control_peaks"][0]), upd, FALSE>>,
                            r = Raised, "adata" :> after, r)
    /\ UNCHANGED <<cc, nbuilds>>
    /\ UNCHANGED <<ctrlVars, libVars>>

FastSpecInit == FastInit /\ ctrlIdle /\ libIdle

FastNext == ControlCorrFast

SpecFast == FastSpecInit /\ [][FastNext]_vars

\* C24: for every number N >= 1 of links and every b, control_corr_fast
\* returns, and its N x b matrix is the one control_corr returns for the
\* same control peaks and matrices, row for row; also when N is below, or
\* a multiple of, the 15 chunks
C24_FastMatchesControlCorr ==
    call.stage = "control_corr_fast" =>
        /\ ~call.raised
        /\ call.value = control_corr(ds.adata, call.args[2], FALSE)

----------------------------------------------------------------------------
(* control_corr_permutation_chunked of method-Isuru.py (specification      *)
(* SpecPerm).  adata.X is the accessibility matrix, rna_adata.X the        *)
(* expression matrix, both sparse; a chunk's .todense() is an np.matrix.   *)

\* method-Isuru.py shuffle_columns_all_at_once: the num_shuffles matrices
\* of the tensor.  A column of an np.matrix is two-dimensional: squeezed on
\* axis 1 it is the one row of a matrix, tiled and transposed it is a
\* matrix of num_shuffles copies of the column, and np.apply_along_axis
\* hands np.random.permutation each copy as a matrix of one row, which
\* permutation shuffles along its first axis: the row comes back as it is
\* (hence the np.squeeze(..., axis=0) of line 661).  Every matrix of the
\* tensor is the chunk itself.
shuffle_columns_all_at_once(m, num_shuffles) == [j \in 1..num_shuffles |-> m]

\* one pass of the loop over the chunks (lines 705-733) for the columns
\* `cols`: np.concatenate(col_list) raises on a chunk without columns;
\* the stacked correlations are squeezed to (num_ctrls, n), to
\* (num_ctrls,) for a chunk of one column, which is lifted to (1, 1) only
\* for num_ctrls = 1
perm_chunk(atac_X, rna_X, cols, num_ctrls) ==
    LET stacked(samples) ==
            [kind |-> "array",
             ndim |-> IF Len(cols) = 1 /\ num_ctrls > 1 THEN 1 ELSE 2,
             at   |-> [j \in 1..num_ctrls |->
                          [c \in 1..Len(cols) |-> as_float(samples[j].corr[c - 1])]]]
        correlated(rna_chunk, tensor) ==
            stacked([j \in 1..num_ctrls |->
                        pearson_corr_sparse(rna_chunk, tensor[j], FALSE)])
    IN  IF cols = << >> THEN Raised
        ELSE correlated(fancy_columns(rna_X, cols),
                        shuffle_columns_all_at_once(fancy_columns(atac_X, cols),
                                                    num_ctrls))

\* np.concatenate(control_corr_list, axis=1): there is no axis 1 in a
\* one-dimensional chunk
concatenate_columns(chunks, num_ctrls) ==
    LET joined(rows) ==
            [shape |-> <<num_ctrls, Len(rows[1])>>, at |-> rows]
    IN  IF \E i \in DOMAIN chunks : chunks[i].kind = "error" THEN Raised
        ELSE IF \E i \in DOMAIN chunks : chunks[i].ndim = 1 THEN Raised
        ELSE joined([j \in 1..num_ctrls |->
                        Flat([i \in DOMAIN chunks |-> chunks[i].at[j]])])

\* method-Isuru.py control_corr_permutation_chunked: the array returned,
\* or Raised
control_corr_permutation_chunked(atac_X, rna_X, num_ctrls, ng) ==
    concatenate_columns(
        [k \in 1..(ng + 1) |->
            perm_chunk(atac_X, rna_X,
                       chunk(py_range(rna_X.cols), rna_X.cols \div ng, k, ng),
                       num_ctrls)],
        num_ctrls)

\* the datasets control_corr_permutation_chunked is called on
PermDatasets ==
    {build_adata(profile_matrix(N, sa), profile_matrix(N, sr)) :
        N \in 1..PermMaxLinks, sa \in 0..3, sr \in 0..3}

PermInit ==
    /\ ds \in {[links |-> << >>, adata |-> d, ct_adata |-> << >>,
                other_adata |-> << >>] : d \in PermDatasets}
    /\ cc = << >>
    /\ call = NoCall
    /\ nbuilds = 0

\* a call control_corr_permutation_chunked(adata, num_ctrls, rna_adata,
\* num_groups)
ControlCorrPermutationChunked ==
    /\ call.stage = "none"
    /\ \E num_ctrls \in 1..MaxB, ng \in 1..MaxGroups :
          call' = Called("control_corr_permutation_chunked",
                         <<"adata", num_ctrls, ng>>,
                         control_corr_permutation_chunked(
                             ds.adata.layers.atac, ds.adata.layers.rna,
                             num_ctrls, ng) = Raised,
                         "adata" :> ds.adata,
                         control_corr_permutation_chunked(
                             ds.adata.layers.atac, ds.adata.layers.rna, num_ctrls, ng))
    /\ UNCHANGED <<ds, cc, nbuilds>>
    /\ UNCHANGED <<ctrlVars, libVars>>

PermSpecInit == PermInit /\ ctrlIdle /\ libIdle

PermNext == ControlCorrPermutationChunked

SpecPerm == PermSpecInit /\ [][PermNext]_vars

\* the orders the cells of a matrix of n rows can be put in
CellOrders(n) == {p \in [1..n -> 1..n] : \A x, y \in 1..n : x # y => p[x] # p[y]}

\* column j of matrix m with its cells in the order p
reordered(m, j, p) ==
    [rows |-> m.rows, cols |-> 1, at |-> (0 :> [i \in 1..m.rows |-> m.at[j][p[i]]])]

\* C25: for every number M >= 1 of features and every num_groups >= 1,
\* control_corr_permutation_chunked returns, and the array holds num_ctrls
\* statistics for each of the M features in their order, each the
\* correlation of a reordering of the cells of the feature's own
\* accessibility column with its expression column
C25_PermutationNullPerFeature ==
    call.stage = "control_corr_permutation_chunked" =>
        /\ ~call.raised
        /\ call.value.shape = <<call.args[2], ds.adata.layers.rna.cols>>
        /\ \A j \in 1..call.args[2] : \A f \in 0..(ds.adata.layers.rna.cols - 1) :
              \E p \in CellOrders(ds.adata.layers.atac.rows) :
                 call.value.at[j][f + 1] =
                    as_float(corr_value(ds.adata.layers.rna, f,
                                        reordered(ds.adata.layers.atac, f, p), 0))

----------------------------------------------------------------------------
(* The differences between a cell type and its complement (specification   *)
(* SpecDelta): build_ct_adata, build_other_adata, get_corrs on each and    *)
(* get_deltas, on datasets of two groups of cells per cell type, so that a *)
(* link can vary inside one cell type and not inside the other.            *)

\* obs['celltype'] of the four groups of cells
DeltaCellTypes == <<"T", "T", "B", "B">>

\* the value of an accessibility column in each group: varying inside T
\* only, inside B only, inside both
DeltaProfiles == {<<1, 0, 1, 1>>, <<1, 1, 1, 0>>, <<1, 0, 1, 0>>}

\* the expression column of a link: its accessibility column, or that
\* column mirrored
Mirrored(p, sign) == [q \in DOMAIN p |-> IF sign = 1 THEN p[q] ELSE 1 - p[q]]

\* method.py build_adata for cells of the groups `types`
typed_adata(atac, rna, types) ==
    [layers    |-> [atac |-> atac, rna |-> rna, atac_raw |-> atac, rna_raw |-> rna],
     celltype  |-> [i \in 1..atac.rows |-> types[((i - 1) \div GroupCells) + 1]],
     var_names |-> [j \in 0..(atac.cols - 1) |-> j],
     var       |-> << >>,
     varm      |-> ("lowexp_ct_mask" :> << >>),
     uns       |-> ("ct_labels" :> CtLabels)]

\* the dataset of the links `kinds` (accessibility profile, sign of the
\* expression column)
delta_links(kinds) ==
    typed_adata(
        group_matrix([q \in 1..Len(DeltaCellTypes) |->
                         [j \in 0..(Len(kinds) - 1) |-> kinds[j + 1][1][q]]], Len(kinds)),
        group_matrix([q \in 1..Len(DeltaCellTypes) |->
                         [j \in 0..(Len(kinds) - 1) |->
                             Mirrored(kinds[j + 1][1], kinds[j + 1][2])[q]]], Len(kinds)),
        DeltaCellTypes)

\* one control peak per link: the first peak of the same accessibility
\* profile
delta_control_peaks(kinds) ==
    [j \in 0..(Len(kinds) - 1) |->
        <<(CHOOSE c \in 1..Len(kinds) :
              /\ kinds[c][1] = kinds[j + 1][1]
              /\ \A x \in 1..(c - 1) : kinds[x][1] # kinds[j + 1][1]) - 1>>]

\* the dataset after get_corrs, control_corr and get_pvals
analysed(links) ==
    LET tested(adata) == get_pvals(adata, "control_corr", "corr")
        nulled(adata) ==
            tested([adata EXCEPT !.varm =
                       Store(@, "control_corr", control_corr(adata, 1, FALSE))])
    IN  nulled(get_corrs(links))

DeltaDatasets ==
    UNION {{analysed([delta_links(kinds) EXCEPT !.varm =
                         Store(@, "control_peaks", delta_control_peaks(kinds))]) :
               kinds \in [1..M -> DeltaProfiles \X {1, 0 - 1}]}
           : M \in 2..DeltaMaxLinks}

DeltaInit ==
    /\ ds \in {[links |-> << >>, adata |-> d, ct_adata |-> << >>,
                other_adata |-> << >>] : d \in DeltaDatasets}
    /\ cc = << >>
    /\ call = NoCall
    /\ nbuilds = 0

DeltaSpecInit == DeltaInit /\ ctrlIdle /\ libIdle

DeltaNext ==
    \/ BuildCtAdata
    \/ BuildOtherAdata
    \/ GetCorrs
    \/ GetDeltas

SpecDelta == DeltaSpecInit /\ [][DeltaNext]_vars

\* the position of link n in a dataset; the dataset has it
position(adata, n) == CHOOSE k \in DOMAIN adata.var_names : adata.var_names[k] = n

has_link(adata, n) == \E k \in DOMAIN adata.var_names : adata.var_names[k] = n

\* C26: after build_ct_adata, build_other_adata, get_corrs on each of the
\* two datasets and get_deltas, every delta_corr[i] of the cell type's
\* dataset is the correlation of its link i minus the correlation the
\* complement holds for that same link
C26_DeltaOfSameLink ==
    (call.stage = "get_deltas" /\ ~call.raised) =>
        /\ DOMAIN ds.ct_adata.var["delta_corr"] = DOMAIN ds.ct_adata.var_names
        /\ \A i \in DOMAIN ds.ct_adata.var_names :
              /\ has_link(ds.other_adata, ds.ct_adata.var_names[i])
              /\ ds.ct_adata.var["delta_corr"][i] =
                    ds.ct_adata.var["corr"][i]
                    - ds.other_adata.var["corr"][
                          position(ds.other_adata, ds.ct_adata.var_names[i])]

----------------------------------------------------------------------------
(* The control peaks of a dataset and the columns they index               *)
(* (specification SpecPipe).  The peaks are drawn as column positions of   *)
(* the dataset given to create_ctrl_peaks, whose links are named by their  *)
(* positions.                                                              *)

\* the datasets of the run that hold control peaks
WithControlPeaks ==
    {t \in Roles : IF ds[t] = << >> THEN FALSE
                   ELSE "control_peaks" \in DOMAIN ds[t].varm}

\* the entries of varm['control_peaks']
entries_of(adata) ==
    UNION {{adata.varm["control_peaks"][r][k] :
               k \in 1..Len(adata.varm["control_peaks"][r])} :
           r \in DOMAIN adata.varm["control_peaks"]}

\* C27: whatever create_ctrl_peaks, get_corrs and build_ct_adata calls
\* came before, every entry of varm['control_peaks'] of a dataset is a
\* column of the accessibility matrix control_corr reads, layers['atac']
\* with ct=False and uns['original_atac'] with ct=True, and that column is
\* the peak that was drawn
C27_ControlPeaksStayValid ==
    \A t \in WithControlPeaks : \A e \in entries_of(ds[t]) :
        /\ e \in 0..(ds[t].layers.atac.cols - 1)
        /\ ds[t].var_names[e] = e
        /\ "original_atac" \in DOMAIN ds[t].uns =>
              e \in 0..(ds[t].uns["original_atac"].cols - 1)

----------------------------------------------------------------------------
(* control_corr and the control peaks it finds (specification SpecPipe). *)

\* a step in which a call of control_corr leaves its loop
ControlCorrStep ==
    /\ call'.stage = "control_corr"
    /\ pc' = "idle"
    /\ pc \in {"idle", "returned"}

\* C28: control_corr creates varm['control_peaks'] only on a dataset
\* without it and leaves the peaks of a dataset that has them as they
\* are, so that a call following another with the same arguments computes
\* the same matrix; a call with update=False does not write
\* varm['control_corr']
C28_ControlCorrKeepsThePeaks ==
    [][ControlCorrStep =>
          LET t == call'.args[1]
          IN  /\ IF "control_peaks" \in DOMAIN ds[t].varm
                 THEN /\ pc = "idle"
                      /\ ds'[t].varm["control_peaks"] = ds[t].varm["control_peaks"]
                 ELSE /\ pc = "returned"
                      /\ "control_peaks" \in DOMAIN ds'[t].varm
              /\ ~call'.args[3] => "control_corr" \notin DOMAIN ds'[t].varm
              /\ (/\ call.stage = "control_corr" /\ pc = "idle"
                  /\ ~call.raised /\ ~call'.raised
                  /\ call.args[1] = t
                  /\ call.args[2] = call'.args[2]
                  /\ call.args[4] = call'.args[4])
                 => call'.value = call.value]_vars

\* a call with update=False returned a matrix on a dataset that came with
\* its control peaks
C28_Witness ==
    /\ call.stage = "control_corr" /\ ~call.raised /\ pc = "idle"
    /\ ~call.args[3]
    /\ "control_peaks" \in DOMAIN ds[call.args[1]].varm
    /\ "control_corr" \notin DOMAIN ds[call.args[1]].varm
    /\ ds[call.args[1]].layers.atac.cols >= 2

----------------------------------------------------------------------------
(* The bins create_ctrl_peaks samples from (specification Spec). *)

\* C29: create_ctrl_peaks(adata, num_bins=k) samples from the bins of
\* get_bins with num_bins=k: the accessibility of the links is cut into
\* the k groups asked for
C29_BinsOfRequestedNumBins ==
    pc \in {"sampling", "returned"} =>
        bins = IF impl = "method" THEN get_bins(num_bins)
               ELSE isuru_get_bins(num_bins, use_gc)

----------------------------------------------------------------------------
(* get_bins called on its own (specification SpecBins): links of distinct  *)
(* peaks, of increasing mean accessibility, whose GC contents are the      *)
(* accessibilities shifted round by some number of links.                  *)

BinsInit ==
    /\ impl \in {"method", "isuru"}
    /\ \E n \in 1..BinsMaxLinks : \E s \in 0..(n - 1) :
          /\ var_peak = [i \in 0..(n - 1) |-> i + 1]
          /\ mfa = [i \in 0..(n - 1) |-> i]
          /\ gc = [i \in 0..(n - 1) |-> (i + s) % n]
    /\ var_peak_col = var_peak
    /\ num_bins \in 1..BinsMaxNumBins
    /\ use_gc = TRUE
    /\ b = 0 /\ update = FALSE
    /\ pc = "start"
    /\ bins = << >> /\ row = 0
    /\ ctrl_peaks = << >> /\ result = << >> /\ varm = << >>

\* bins = get_bins(adata, num_bins)
GetBins ==
    /\ pc = "start"
    /\ bins' = IF impl = "method" THEN get_bins(num_bins)
               ELSE isuru_get_bins(num_bins, use_gc)
    /\ pc' = "binned"
    /\ UNCHANGED <<ctrlInputs, update, row, ctrl_peaks, result, varm>>
    /\ UNCHANGED nonCtrlVars

BinsSpecInit == BinsInit /\ nonCtrlIdle

BinsNext == GetBins

SpecBins == BinsSpecInit /\ [][BinsNext]_vars

\* C30: whatever num_bins get_bins is given, two links have the same
\* combined_mfa_gc only if they have the same accessibility bin and the
\* same GC bin
C30_JointBinIdIsInjective ==
    pc = "binned" =>
        \A i, j \in DOMAIN bins :
            bins[i].combined_mfa_gc = bins[j].combined_mfa_gc =>
                /\ bins[i].mfa_bin = bins[j].mfa_bin
                /\ bins[i].gc_bin = bins[j].gc_bin

====
